---- MODULE Spec2Model ----
(***************************************************************************)
(* A model of the federated JSON store of py-ldap-server                   *)
(* (src/src/ldap_server/storage/json.py): the merge engine, the lazy index *)
(* and references, the bounded LRU cache, the reload of the published root *)
(* and the debouncing file watcher.                                        *)
(*                                                                         *)
(* Several specifications share the module.  Each one drives one part of   *)
(* the store and holds the variables of the other parts at their idle      *)
(* values:                                                                 *)
(*   SpecMerge  eager merge and lazy reference selection (pure functions)  *)
(*   SpecCache  LazyEntryCache, LazyEntryReference, LazyLDIFTreeEntry      *)
(*   Spec         FederatedJSONStorage._load_json run by the file watcher  *)
(*                while the source files change                            *)
(*   SpecWatcher  FederatedFileWatcher: every kind of event, the timers    *)
(*   SpecLive     SpecWatcher with the fairness of the timer threads       *)
(*   SpecWriter   the atomic writer's protocol under concurrent writers    *)
(*   SpecWrite    add_entry, modify_entry, delete_entry, bulk_write_entries*)
(*   SpecLoad     __init__ and later loads on every configuration          *)
(*   SpecParse    _load_json_entries on every shape of file content        *)
(***************************************************************************)
EXTENDS Integers, Sequences, FiniteSets, TLC

VARIABLES
    \* ---- configuration and source files (FederatedJSONStorage.__init__)
    json_files,          \* self.json_files: the ordered Source File Set
    fileContent,         \* what each path holds on disk right now
    merge_strategy,      \* self.merge_strategy
    enable_lazy_loading, \* self.enable_lazy_loading
    \* ---- results of the pure load functions (SpecMerge)
    eagerResult,         \* what _load_and_merge_files returned or raised
    lazyResult,          \* what _load_with_lazy_loading built or raised
    materialized,        \* dn -> attributes obtained through the lazy reference
    \* ---- the lazy cache and what it refers to (SpecCache)
    cache,               \* LazyEntryCache._cache: the references, least recently used first
    refAttrs,            \* LazyEntryReference._loaded_attributes of every reference
    nodeLoaded,          \* LazyLDIFTreeEntry._lazy_loaded of the node that owns the reference
    removed,             \* the references the last cache operation evicted or cleared
    \* ---- the published tree and the running reload (Spec)
    root_ref,            \* self.root_ref["root"]: which root object is published (0 is None)
    ldif_dir,            \* the entries stored under self._temp_dir, which every root shows
    todo,                \* sorted_dns of the running build: the entries still to add
    before,              \* history: root_ref and ldif_dir when the last reload began
    lastReload,          \* history: "none", "running", "ok" or "failed" (the error was logged)
    \* ---- FederatedFileWatcher (Spec)
    pending,             \* self._pending_reloads
    timers,              \* the threading.Timer started by each event
    timer,               \* self._timer: the event whose timer it is (0 is None)
    nEvents,             \* history: how many events were delivered to on_modified
    lastEvent,           \* history: the last event delivered to on_modified
    burstReloads,        \* history: reloads the watcher began since the current burst began
    burstBroken,         \* history: an event joined the burst after a reload of the burst
    unserved,            \* history: an accepted event no reload has begun after
    \* ---- AtomicJSONWriter: the writers of one target file (SpecWriter)
    backup_enabled,      \* AtomicJSONWriter(backup_enabled=...)
    pc,                  \* where each writer is in the write protocol
    lock,                \* the writer that holds the advisory lock (0 is nobody)
    lock_file,           \* the sibling lock file: the pid it holds (0 is no file)
    temp_file,           \* the sibling temporary file
    target,              \* the target file
    backups,             \* the backup copies made so far
    atLock,              \* history: the target when each writer acquired the lock
    \* ---- the store's write operations (SpecWrite)
    read_only,           \* the store is configured read-only
    lastWrite,           \* history: the last write operation and what it returned
    \* ---- the paginated search (SpecPage)
    iterator,            \* the LazySearchIterator made last
    result,              \* the PaginatedSearchResult returned last, or what was raised
    \* ---- the statistics of the store (SpecFiles)
    load_stats,          \* self.load_stats: what the last successful load recorded
    \* ---- threads that use the cache at the same time (SpecThreads)
    cache_lock,          \* LazyEntryCache._lock: the thread that holds it ("" is nobody)
    thread,              \* the call each thread is making and where it is in it
    start,               \* history: the cache and the references when the calls began
    \* ---- the protocol layer: the factory and one connection (SpecServer)
    storage_kind,        \* which storage the factory was given
    factory_root,        \* LDAPServerFactory.root (0 before the factory is made)
    lastRead,            \* history: the root the last read of the protocol layer went to
    authenticated_dn,    \* CustomLDAPServer.authenticated_dn
    lastBind,            \* history: the last bind request and its result code
    replies,             \* history: how many times reply was called
    \* ---- the cache's statistics and its calls seen from outside (SpecLru)
    cache_stats,         \* LazyEntryCache.stats: hits and misses
    lastCacheCall,       \* history: the last get or put, and what get returned
    cache_limits,        \* LazyEntryCache.max_entries and max_memory_bytes
    \* ---- the store's resources released by cleanup (SpecCleanup)
    observer,            \* self._observer: "running", or "none" for None
    cleanups,            \* history: how many calls of cleanup() returned
    \* ---- the threads of the store and the locks they take (SpecLocks)
    held,                \* the locks each thread holds, in the order it acquired them
    program,             \* what each thread still has to execute of the call it is in
    lock_calls           \* history: how many calls the threads began

(***************************************************************************)
(* Data.  A DN is the sequence of its RDNs, most specific first, so that   *)
(* dn.count(',') + 1 is Len(dn) and the parent DN is Tail(dn).             *)
(* An attribute map is an opaque token.                                    *)
(***************************************************************************)
MaxRecords == 2

F1 == "f1.json"
F2 == "f2.json"
Paths == {F1, F2}

DnA == <<"dc=a">>
DnB == <<"ou=b", "dc=a">>
MergeDNs == {DnA, DnB}

Attrs == {"A1", "A2"}

NoAttrs == "none"      \* Python None where attributes are expected
EmptyAttrs == "empty"  \* the {} fallback of _load_from_file

Entry(dn, attributes) == [dn |-> dn, attributes |-> attributes]

SeqsUpTo(S, n) == UNION {[1..k -> S] : k \in 0..n}

\* A path holds a JSON list of valid entries, malformed text, or nothing.
ListContent(entries) == [kind |-> "list", entries |-> entries]
Malformed == [kind |-> "malformed", entries |-> <<>>]
Missing == [kind |-> "missing", entries |-> <<>>]

MergeContents ==
    {ListContent(es) : es \in SeqsUpTo({Entry(d, a) : d \in MergeDNs, a \in Attrs}, MaxRecords)}
        \cup {Missing}

(***************************************************************************)
(* Python dict with insertion order: a sequence of entries, one per key.   *)
(***************************************************************************)
DictHas(d, dn) == \E i \in 1..Len(d) : d[i].dn = dn

DictGet(d, dn) == d[CHOOSE i \in 1..Len(d) : d[i].dn = dn].attributes

DictSet(d, dn, attributes) ==
    IF DictHas(d, dn)
    THEN [i \in 1..Len(d) |-> IF d[i].dn = dn THEN Entry(dn, attributes) ELSE d[i]]
    ELSE Append(d, Entry(dn, attributes))

DictKeys(d) == {d[i].dn : i \in 1..Len(d)}

\* A local variable: Body applied to value, the value computed once.
With(value, Body(_)) == CHOOSE r \in {Body(v) : v \in {value}} : TRUE

(***************************************************************************)
(* FederatedJSONStorage._merge_entries: merge one file's entries into the  *)
(* target.  The state is [target, conflicts, error]; error names the DN of *)
(* the raised merge conflict (<<>> when none was raised).                  *)
(***************************************************************************)
NoError == "ok"

MergeOneFlipped(st, entry, strategy) ==
    IF st.error # NoError THEN st
    ELSE IF DictHas(st.target, entry.dn)
    THEN IF strategy = "first_wins"
         THEN [st EXCEPT !.conflicts = @ + 1,
                         !.target = DictSet(st.target, entry.dn, entry.attributes)]
         ELSE IF strategy = "last_wins"
         THEN [st EXCEPT !.conflicts = @ + 1]
         ELSE [st EXCEPT !.conflicts = @ + 1, !.error = "merge_conflict", !.dn = entry.dn]
    ELSE [st EXCEPT !.target = DictSet(st.target, entry.dn, entry.attributes)]

MergeOne(st, entry, strategy) ==
    IF st.error # NoError THEN st
    ELSE IF DictHas(st.target, entry.dn)
    THEN IF strategy = "first_wins"
         THEN [st EXCEPT !.conflicts = @ + 1]
         ELSE IF strategy = "last_wins"
         THEN [st EXCEPT !.conflicts = @ + 1,
                         !.target = DictSet(st.target, entry.dn, entry.attributes)]
         ELSE IF strategy = "error"
         THEN [st EXCEPT !.conflicts = @ + 1, !.error = "merge_conflict", !.dn = entry.dn]
         ELSE [st EXCEPT !.conflicts = @ + 1, !.error = "unknown_strategy", !.dn = entry.dn]
    ELSE [st EXCEPT !.target = DictSet(st.target, entry.dn, entry.attributes)]

RECURSIVE MergeEntries(_, _, _)
MergeEntries(st, entries, strategy) ==
    IF entries = <<>> THEN st
    ELSE With(MergeOne(st, Head(entries), strategy),
              LAMBDA merged : MergeEntries(merged, Tail(entries), strategy))

(***************************************************************************)
(* FederatedJSONStorage._load_and_merge_files: the files in listed order;  *)
(* a missing file is skipped, a malformed one raises, a merge conflict     *)
(* under "error" raises, and no loaded file at all raises.                 *)
(***************************************************************************)
LoadStart == [target |-> <<>>, conflicts |-> 0, error |-> NoError, dn |-> <<>>, files_loaded |-> 0]

RECURSIVE LoadFiles(_, _, _, _)
LoadFiles(st, files, content, strategy) ==
    IF files = <<>> \/ st.error # NoError THEN st
    ELSE LET c == content[Head(files)] IN
         IF c.kind = "missing" THEN LoadFiles(st, Tail(files), content, strategy)
         ELSE IF c.kind = "malformed" THEN [st EXCEPT !.error = "invalid_json"]
         ELSE With(MergeEntries(st, c.entries, strategy),
                   LAMBDA m : IF m.error # NoError THEN m
                              ELSE With([m EXCEPT !.files_loaded = @ + 1],
                                        LAMBDA loaded : LoadFiles(loaded, Tail(files), content, strategy)))

LoadAndMergeFiles(files, content, strategy) ==
    LET st == LoadFiles(LoadStart, files, content, strategy) IN
    IF st.error = NoError /\ st.files_loaded = 0
    THEN [st EXCEPT !.error = "no_files"]
    ELSE st

(***************************************************************************)
(* IndexedJSONFile.build_index: entry_index[dn] = (i, 1) for every entry   *)
(* in file order, so a later entry with the same dn replaces the earlier   *)
(* one in the index.  Indices are 1-based here.                            *)
(***************************************************************************)
EmptyIndex == [d \in {} |-> 0]

RECURSIVE BuildIndexFrom(_, _, _)
BuildIndexFrom(idx, entries, i) ==
    IF i > Len(entries) THEN idx
    ELSE BuildIndexFrom(
             [d \in (DOMAIN idx) \cup {entries[i].dn} |->
                 IF d = entries[i].dn THEN i ELSE idx[d]],
             entries, i + 1)

BuildIndex(entries) == BuildIndexFrom(EmptyIndex, entries, 1)

(***************************************************************************)
(* FederatedJSONStorage._load_with_lazy_loading: index every existing      *)
(* file; a file whose index cannot be built is logged and skipped unless   *)
(* it is the only configured file; no indexed file at all raises.          *)
(* indexed is a sequence of [path, index], one per indexed file.           *)
(***************************************************************************)
LazyStart == [indexed |-> <<>>, error |-> NoError, files_loaded |-> 0]

RECURSIVE IndexFiles(_, _, _, _)
IndexFiles(st, files, content, nfiles) ==
    IF files = <<>> \/ st.error # NoError THEN st
    ELSE LET c == content[Head(files)] IN
         IF c.kind = "missing" THEN IndexFiles(st, Tail(files), content, nfiles)
         ELSE IF c.kind = "malformed"
         THEN IF nfiles = 1 THEN [st EXCEPT !.error = "invalid_json"]
              ELSE IndexFiles(st, Tail(files), content, nfiles)
         ELSE With([st EXCEPT !.indexed = Append(@, [path |-> Head(files),
                                                     index |-> BuildIndex(c.entries)]),
                              !.files_loaded = @ + 1],
                   LAMBDA indexed : IndexFiles(indexed, Tail(files), content, nfiles))

LoadWithLazyLoading(files, content) ==
    LET st == IndexFiles(LazyStart, files, content, Len(files)) IN
    IF st.error = NoError /\ st.files_loaded = 0
    THEN [st EXCEPT !.error = "no_files"]
    ELSE st

IsIndexed(indexed, path) == \E i \in 1..Len(indexed) : indexed[i].path = path

IndexFor(indexed, path) == indexed[CHOOSE i \in 1..Len(indexed) : indexed[i].path = path].index

AllDns(indexed) == UNION {DOMAIN indexed[i].index : i \in 1..Len(indexed)}

(***************************************************************************)
(* FederatedJSONStorage._get_lazy_reference_for_dn: the files in reverse   *)
(* order under last_wins, in listed order otherwise; the first indexed     *)
(* file that knows the dn gives the reference (IndexedJSONFile             *)
(* .get_entry_reference).                                                  *)
(***************************************************************************)
NoRef == [dn |-> <<>>, file_path |-> "", entry_index |-> 0]

Reverse(s) == [i \in 1..Len(s) |-> s[Len(s) + 1 - i]]

RECURSIVE FirstReference(_, _, _)
FirstReference(dn, files, indexed) ==
    IF files = <<>> THEN NoRef
    ELSE IF IsIndexed(indexed, Head(files)) /\ dn \in DOMAIN IndexFor(indexed, Head(files))
    THEN [dn |-> dn, file_path |-> Head(files),
          entry_index |-> IndexFor(indexed, Head(files))[dn]]
    ELSE FirstReference(dn, Tail(files), indexed)

GetLazyReferenceForDn(dn, files, indexed, strategy) ==
    IF strategy = "last_wins"
    THEN FirstReference(dn, Reverse(files), indexed)
    ELSE FirstReference(dn, files, indexed)

(***************************************************************************)
(* IndexedJSONFile.load_entry_by_index and LazyEntryReference              *)
(* ._load_from_file: the file is read again when the reference is          *)
(* materialized; an unreadable file or an index out of range gives the     *)
(* empty fallback.                                                         *)
(***************************************************************************)
LoadFromFile(ref, content) ==
    LET c == content[ref.file_path] IN
    IF c.kind = "list" /\ ref.entry_index \in 1..Len(c.entries)
    THEN c.entries[ref.entry_index].attributes
    ELSE EmptyAttrs

(***************************************************************************)
(* The variables by part, and the idle values of the results of the pure   *)
(* load functions.                                                         *)
(***************************************************************************)
Strategies == {"first_wins", "last_wins", "error"}

Unset == [LoadStart EXCEPT !.error = "unset"]
LazyUnset == [LazyStart EXCEPT !.error = "unset"]
NotMaterialized == [dn |-> <<>>, attributes |-> NoAttrs]

mergeVars == <<eagerResult, lazyResult, materialized>>
configVars == <<json_files, fileContent, merge_strategy, enable_lazy_loading>>

MergeIdle == eagerResult = Unset /\ lazyResult = LazyUnset /\ materialized = NotMaterialized

MaxEvents == 3
MaxReloadEvents == 2

NoEvent == [src_path |-> "", is_directory |-> FALSE]
NoTimers == [i \in 1..MaxEvents |-> "none"]

storeVars == <<root_ref, ldif_dir, todo, before, lastReload>>
watcherVars == <<pending, timers, timer, nEvents, lastEvent, burstReloads, burstBroken, unserved>>

StoreIdle ==
    /\ root_ref = 0
    /\ ldif_dir = {}
    /\ todo = <<>>
    /\ before = [root |-> 0, dir |-> {}]
    /\ lastReload = "none"

WatcherIdle ==
    /\ pending = {}
    /\ timers = NoTimers
    /\ timer = 0
    /\ nEvents = 0
    /\ lastEvent = NoEvent
    /\ burstReloads = 0
    /\ burstBroken = FALSE
    /\ unserved = FALSE

MaxWriters == 2

\* The threads or processes that write the same target, by pid.
Writers == 1..MaxWriters

\* A file that exists holds a sequence of pieces; each piece carries the pid
\* of the writer it came from (0: the content from before any of the writes).
\* A complete content is two pieces of one writer.
NoFile == [exists |-> FALSE, data |-> <<>>]
File(data) == [exists |-> TRUE, data |-> data]
Content(w) == File(<<w, w>>)
Original == Content(0)

MaxWrites == 2

\* Before any write operation: which operation, the entries it was given,
\* the records its file held, what it returned, how many ran so far.
NoWrite == [op |-> "none", entries |-> <<>>, records |-> <<>>, result |-> FALSE, n |-> 0]

writerVars == <<backup_enabled, pc, lock, lock_file, temp_file, target, backups, atLock>>
apiVars == <<read_only, lastWrite>>
writePathVars == <<writerVars, apiVars>>

WriterIdle ==
    /\ backup_enabled = FALSE
    /\ pc = [w \in Writers |-> "idle"]
    /\ lock = 0
    /\ lock_file = 0
    /\ temp_file = NoFile
    /\ target = NoFile
    /\ backups = {}
    /\ atLock = [w \in Writers |-> NoFile]

ApiIdle == read_only = FALSE /\ lastWrite = NoWrite

WritePathIdle == WriterIdle /\ ApiIdle

MaxPageSize == 2
MaxPageNum == 2

NoIterator == [base_dn |-> <<>>, page_size |-> 0, all_dns |-> <<>>, derived |-> FALSE]
NoResult ==
    [op |-> "none", error |-> NoError, base_dn |-> <<>>, page_num |-> 0, entries |-> <<>>,
     page_size |-> 0, total_count |-> 0, current_page |-> 0, total_pages |-> 0]

NoStats == [total_entries |-> 0, files_loaded |-> 0, merge_conflicts |-> 0]

Threads == {"iterator", "node"}
NoCall == [op |-> "none", ref |-> "", pc |-> "idle", seen |-> {}, total |-> 0]
NoStart == [cache |-> <<>>, attrs |-> <<>>, removed |-> {}]

threadVars == <<cache_lock, thread, start>>

ThreadsIdle == cache_lock = "" /\ thread = [t \in Threads |-> NoCall] /\ start = NoStart

MaxBinds == 3

None == <<>>            \* Python None where a DN is expected, and the empty DN string
NoRead == [by |-> "none", root |-> 0, published |-> 0]
NoBind == [n |-> 0, dn |-> "", password |-> "", result_code |-> 0]

protocolVars == <<storage_kind, factory_root, lastRead, authenticated_dn, lastBind, replies>>

ProtocolIdle ==
    /\ storage_kind = "json"
    /\ factory_root = 0
    /\ lastRead = NoRead
    /\ authenticated_dn = None
    /\ lastBind = NoBind
    /\ replies = 0

MaxEntries == 2
MaxMemoryBytes == 6
MaxCalls == 4

\* the limits of the cache of the other specifications
DefaultLimits == [max_entries |-> MaxEntries, max_memory_bytes |-> MaxMemoryBytes]

max_entries == cache_limits.max_entries
max_memory_bytes == cache_limits.max_memory_bytes

NoStatsYet == [hits |-> 0, misses |-> 0]
NoCacheCall == [n |-> 0, op |-> "none", dn |-> "", ref |-> "", returned |-> ""]

lruVars == <<cache_stats, lastCacheCall, cache_limits>>

LruIdle ==
    cache_stats = NoStatsYet /\ lastCacheCall = NoCacheCall /\ cache_limits = DefaultLimits

MaxCleanups == 2

cleanupVars == <<observer, cleanups>>

CleanupIdle == observer = "none" /\ cleanups = 0

MaxLockCalls == 4

\* The watchdog thread that delivers the events, one threading.Timer thread
\* per event, and two threads of the application: one that changes the
\* Source File Set, one that searches.
ObserverThread == <<"observer", 0>>
ApiThread == <<"api", 0>>
SearchThread == <<"search", 0>>
TimerThread(i) == <<"timer", i>>
LockThreads == {ObserverThread, ApiThread, SearchThread} \cup {TimerThread(i) : i \in 1..MaxEvents}

lockVars == <<held, program, lock_calls>>

LocksIdle ==
    /\ held = [t \in LockThreads |-> <<>>]
    /\ program = [t \in LockThreads |-> <<>>]
    /\ lock_calls = 0

serviceVars == <<iterator, result, load_stats, threadVars, protocolVars, lruVars, cleanupVars, lockVars>>

ServiceIdle ==
    /\ iterator = NoIterator /\ result = NoResult /\ load_stats = NoStats
    /\ ThreadsIdle
    /\ ProtocolIdle
    /\ LruIdle
    /\ CleanupIdle
    /\ LocksIdle

(***************************************************************************)
(* The lazy cache.  A reference is a LazyEntryReference object; several    *)
(* references may name the same dn (get_entry_reference makes a new one on *)
(* every call).  Every reference is owned by one LazyLDIFTreeEntry node.   *)
(* The attributes a dn has in its source file are fixed here; Chars is the *)
(* number of characters of their keys and values.                          *)
(***************************************************************************)
Refs == {"r1", "r1b", "r2", "r3"}

DnOf(r) ==
    CASE r = "r1" -> "p1"
      [] r = "r1b" -> "p1"
      [] r = "r2" -> "p2"
      [] OTHER -> "p3"

CacheDNs == {DnOf(r) : r \in Refs}

StoredAttrs(dn) ==
    CASE dn = "p1" -> "A1"
      [] dn = "p2" -> "A2"
      [] OTHER -> "A3"

Chars(attributes) ==
    CASE attributes = "A1" -> 1
      [] attributes = "A2" -> 2
      [] attributes = "A3" -> 2
      [] OTHER -> 0

\* LazyEntryReference.get_memory_size: 0 when not loaded, else two bytes a character.
GetMemorySize(attributes) == IF attributes = NoAttrs THEN 0 ELSE Chars(attributes) * 2

RECURSIVE SumMemory(_, _)
SumMemory(c, attrs) ==
    IF c = <<>> THEN 0 ELSE GetMemorySize(attrs[Head(c)]) + SumMemory(Tail(c), attrs)

\* LazyEntryCache._get_total_memory
GetTotalMemory(st) == SumMemory(st.cache, st.attrs)

\* LazyEntryCache._evict_oldest: popitem(last=False), then entry.unload()
EvictOldestKeepLoaded(st) ==
    [st EXCEPT !.cache = Tail(st.cache),
               !.removed = @ \cup {Head(st.cache)}]

\* an eviction that pops the most recently used entry, popitem(last=True)
EvictNewest(st) ==
    [st EXCEPT !.cache = SubSeq(st.cache, 1, Len(st.cache) - 1),
               !.attrs = [@ EXCEPT ![st.cache[Len(st.cache)]] = NoAttrs],
               !.removed = @ \cup {st.cache[Len(st.cache)]}]

EvictOldest(st) ==
    [st EXCEPT !.cache = Tail(st.cache),
               !.attrs = [@ EXCEPT ![Head(st.cache)] = NoAttrs],
               !.removed = @ \cup {Head(st.cache)}]

\* LazyEntryCache._evict_if_needed: the count loop, then the memory loop
RECURSIVE EvictByCount(_)
EvictByCount(st) ==
    IF Len(st.cache) > max_entries THEN EvictByCount(EvictOldest(st)) ELSE st

RECURSIVE EvictByMemory(_)
EvictByMemory(st) ==
    IF GetTotalMemory(st) > max_memory_bytes /\ st.cache # <<>>
    THEN EvictByMemory(EvictOldest(st))
    ELSE st

EvictIfNeeded(st) == EvictByMemory(EvictByCount(st))

\* The cache without the entry stored under the key dn.
RECURSIVE Without(_, _)
Without(c, dn) ==
    IF c = <<>> THEN <<>>
    ELSE IF DnOf(Head(c)) = dn THEN Without(Tail(c), dn)
    ELSE <<Head(c)>> \o Without(Tail(c), dn)

InCache(c, dn) == \E i \in 1..Len(c) : DnOf(c[i]) = dn

CachedRefs(c) == {c[i] : i \in 1..Len(c)}

\* LazyEntryCache.put: delete the key if present, add at the end, evict
Put(st, dn, r) == EvictIfNeeded([st EXCEPT !.cache = Append(Without(st.cache, dn), r)])

\* LazyEntryReference._load_from_file: read the attributes, then cache.put
\* when a cache was given; a failed read leaves the empty fallback, uncached.
LoadRefRaising(st, r, withCache, fileOk) ==
    IF ~fileOk THEN [st EXCEPT !.attrs[r] = "raised"]
    ELSE LET loaded == [st EXCEPT !.attrs[r] = StoredAttrs(DnOf(r))] IN
         IF withCache THEN Put(loaded, DnOf(r), r) ELSE loaded

LoadRef(st, r, withCache, fileOk) ==
    IF ~fileOk THEN [st EXCEPT !.attrs[r] = EmptyAttrs]
    ELSE LET loaded == [st EXCEPT !.attrs[r] = StoredAttrs(DnOf(r))] IN
         IF withCache THEN Put(loaded, DnOf(r), r) ELSE loaded

CacheState == [cache |-> cache, attrs |-> refAttrs, removed |-> {}]

cacheVars == <<cache, refAttrs, nodeLoaded, removed>>

otherThanCache == <<configVars, mergeVars, storeVars, watcherVars, writePathVars, serviceVars>>

CacheIdle ==
    /\ cache = <<>>
    /\ refAttrs = [r \in Refs |-> NoAttrs]
    /\ nodeLoaded = [r \in Refs |-> FALSE]
    /\ removed = {}

\* cache.put(dn, entry) called directly, as the unit tests do with references
\* that are not loaded
CachePut(r) ==
    /\ LET st == Put(CacheState, DnOf(r), r) IN
       /\ cache' = st.cache
       /\ refAttrs' = st.attrs
       /\ removed' = st.removed
    /\ UNCHANGED <<nodeLoaded, otherThanCache>>

\* LazyEntryCache.get: a hit moves the entry to the end
CacheGet(dn) ==
    /\ InCache(cache, dn)
    /\ LET r == CHOOSE x \in CachedRefs(cache) : DnOf(x) = dn IN
       cache' = Append(Without(cache, dn), r)
    /\ removed' = {}
    /\ UNCHANGED <<refAttrs, nodeLoaded, otherThanCache>>

\* LazyEntryCache.clear: unload every entry, then empty the cache
CacheClear ==
    /\ cache # <<>>
    /\ refAttrs' = [r \in Refs |-> IF r \in CachedRefs(cache) THEN NoAttrs ELSE refAttrs[r]]
    /\ removed' = CachedRefs(cache)
    /\ cache' = <<>>
    /\ UNCHANGED <<nodeLoaded, otherThanCache>>

\* LazyEntryReference.get_attributes(cache): loads only when not loaded
GetAttributes(r, withCache, fileOk) ==
    /\ refAttrs[r] = NoAttrs
    /\ LET st == LoadRef(CacheState, r, withCache, fileOk) IN
       /\ cache' = st.cache
       /\ refAttrs' = st.attrs
       /\ removed' = st.removed
    /\ UNCHANGED <<nodeLoaded, otherThanCache>>

\* LazyEntryReference.unload
RefUnload(r) ==
    /\ refAttrs[r] # NoAttrs
    /\ refAttrs' = [refAttrs EXCEPT ![r] = NoAttrs]
    /\ removed' = {}
    /\ UNCHANGED <<cache, nodeLoaded, otherThanCache>>

\* LazyLDIFTreeEntry._ensure_loaded (any attribute access of a tree node):
\* get_attributes(self._cache) of its reference; _lazy_loaded becomes True on
\* success and on failure alike
EnsureLoaded(r, fileOk) ==
    /\ ~nodeLoaded[r]
    /\ LET st == IF refAttrs[r] = NoAttrs
                 THEN LoadRef(CacheState, r, TRUE, fileOk)
                 ELSE CacheState IN
       /\ cache' = st.cache
       /\ refAttrs' = st.attrs
       /\ removed' = st.removed
    /\ nodeLoaded' = [nodeLoaded EXCEPT ![r] = TRUE]
    /\ UNCHANGED otherThanCache

\* LazyLDIFTreeEntry.unload_lazy_attributes
UnloadLazyAttributes(r) ==
    /\ nodeLoaded[r]
    /\ nodeLoaded' = [nodeLoaded EXCEPT ![r] = FALSE]
    /\ refAttrs' = [refAttrs EXCEPT ![r] = NoAttrs]
    /\ removed' = {}
    /\ UNCHANGED <<cache, otherThanCache>>

InitCache ==
    /\ json_files = <<F1>>
    /\ fileContent = [p \in Paths |-> Missing]
    /\ merge_strategy = "last_wins"
    /\ enable_lazy_loading = TRUE
    /\ MergeIdle
    /\ CacheIdle
    /\ StoreIdle
    /\ WatcherIdle
    /\ WritePathIdle
    /\ ServiceIdle

NextCache ==
    \/ \E r \in Refs : CachePut(r)
    \/ \E dn \in CacheDNs : CacheGet(dn)
    \/ CacheClear
    \/ \E r \in Refs, withCache \in BOOLEAN, fileOk \in BOOLEAN : GetAttributes(r, withCache, fileOk)
    \/ \E r \in Refs : RefUnload(r)
    \/ \E r \in Refs, fileOk \in BOOLEAN : EnsureLoaded(r, fileOk)
    \/ \E r \in Refs : UnloadLazyAttributes(r)

(***************************************************************************)
(* SpecMerge: the sources, their order and the policy are drawn in Init;   *)
(* the actions apply the eager load, the lazy load and a materialization.  *)
(***************************************************************************)
EagerLoad ==
    /\ eagerResult = Unset
    /\ eagerResult' = LoadAndMergeFiles(json_files, fileContent, merge_strategy)
    /\ UNCHANGED <<lazyResult, materialized, configVars, cacheVars, storeVars, watcherVars, writePathVars, serviceVars>>

LazyLoad ==
    /\ lazyResult = LazyUnset
    /\ lazyResult' = LoadWithLazyLoading(json_files, fileContent)
    /\ UNCHANGED <<eagerResult, materialized, configVars, cacheVars, storeVars, watcherVars, writePathVars, serviceVars>>

Materialize(dn) ==
    /\ lazyResult.error = NoError
    /\ dn \in AllDns(lazyResult.indexed)
    /\ LET ref == GetLazyReferenceForDn(dn, json_files, lazyResult.indexed, merge_strategy) IN
       /\ ref # NoRef
       /\ materialized' = [dn |-> dn, attributes |-> LoadFromFile(ref, fileContent)]
    /\ UNCHANGED <<eagerResult, lazyResult, configVars, cacheVars, storeVars, watcherVars, writePathVars, serviceVars>>

InitMerge ==
    /\ json_files \in {<<F1, F2>>, <<F2, F1>>}
    /\ fileContent \in [Paths -> MergeContents]
    /\ merge_strategy \in Strategies
    /\ enable_lazy_loading = FALSE
    /\ MergeIdle
    /\ CacheIdle
    /\ StoreIdle
    /\ WatcherIdle
    /\ WritePathIdle
    /\ ServiceIdle

NextMerge ==
    \/ EagerLoad
    \/ LazyLoad
    \/ \E dn \in MergeDNs : Materialize(dn)

vars == <<configVars, mergeVars, cacheVars, storeVars, watcherVars, writePathVars, serviceVars>>

SpecMerge == InitMerge /\ [][NextMerge]_vars

SpecCache == InitCache /\ [][NextCache]_vars

(***************************************************************************)
(* Claims about the merge engine and the lazy reference selection.         *)
(***************************************************************************)
Defines(path, dn) ==
    /\ fileContent[path].kind = "list"
    /\ \E i \in 1..Len(fileContent[path].entries) : fileContent[path].entries[i].dn = dn

SourcesDefining(dn) == {k \in 1..Len(json_files) : Defines(json_files[k], dn)}

AttributesIn(path, dn) ==
    {fileContent[path].entries[i].attributes :
        i \in {j \in 1..Len(fileContent[path].entries) : fileContent[path].entries[j].dn = dn}}

MinOf(S) == CHOOSE k \in S : \A j \in S : k <= j
MaxOf(S) == CHOOSE k \in S : \A j \in S : j <= k

MultiplyDefined == {dn \in MergeDNs : Cardinality(SourcesDefining(dn)) >= 2}

\* The paths with more than one record in the loaded sources, counting the
\* records of one file too.
Occurrences(dn) ==
    {<<k, i>> \in (1..Len(json_files)) \X (1..MaxRecords + 1) :
        /\ fileContent[json_files[k]].kind = "list"
        /\ i <= Len(fileContent[json_files[k]].entries)
        /\ fileContent[json_files[k]].entries[i].dn = dn}

DefinedTwice == {dn \in MergeDNs : Cardinality(Occurrences(dn)) >= 2}

C4_LazyEqualsEager ==
    ( /\ merge_strategy \in {"first_wins", "last_wins"}
      /\ eagerResult.error = NoError
      /\ lazyResult.error = NoError
      /\ materialized # NotMaterialized )
    => materialized.attributes = DictGet(eagerResult.target, materialized.dn)

\* The same statement for sources in which no path occurs twice in one file.
NoDuplicateInOneFile ==
    \A p \in Paths : \A i, j \in 1..Len(fileContent[p].entries) :
        fileContent[p].entries[i].dn = fileContent[p].entries[j].dn => i = j

LazyEqualsEagerWithoutDuplicates == NoDuplicateInOneFile => C4_LazyEqualsEager

(***************************************************************************)
(* Claims about the cache.                                                 *)
(***************************************************************************)
\* C5: in every reachable state the cache holds at most max_entries entries
\* and the estimated size of the entries it holds is at most max_memory_bytes.
C5_CacheBound ==
    /\ Len(cache) <= max_entries
    /\ SumMemory(cache, refAttrs) <= max_memory_bytes

\* C6: every reference the last cache operation evicted or cleared is not
\* loaded right after that operation.
C6_EvictedUnloaded == \A r \in removed : refAttrs[r] = NoAttrs

C6_Witness ==
    /\ "r1" \in removed
    /\ cache = <<"r2", "r3">>
    /\ refAttrs["r2"] # NoAttrs

\* C7: a reference that is not in the cache holds no loaded attributes, and
\* neither does the tree node that owns it.
C7_OnlyCachedLoaded ==
    \A r \in Refs :
        r \notin CachedRefs(cache) => (refAttrs[r] = NoAttrs /\ ~nodeLoaded[r])

(***************************************************************************)
(* The published tree.  _build_ldif_tree and _build_lazy_ldif_tree make    *)
(* every root as LDIFTreeEntry(self._temp_dir), on the one directory that  *)
(* __init__ created with tempfile.mkdtemp and cleanup removes: a root is a *)
(* handle on that directory, and addChild stores the child under it.  The  *)
(* sources of this specification hold depth-1 DNs, whose parent is the     *)
(* root itself (created_entries[""]), so that _ensure_parent_exists is     *)
(* not called.                                                             *)
(***************************************************************************)
DnC == <<"dc=c">>

MinimalAttrs == "minimal"  \* _get_minimal_attributes_for_dn: objectClass and the RDN

StoreContents ==
    { ListContent(<<Entry(DnA, "A1")>>),
      ListContent(<<Entry(DnA, "A2"), Entry(DnC, "A1")>>),
      Malformed,
      Missing }

Range(s) == {s[i] : i \in 1..Len(s)}

DirHas(dir, dn) == \E e \in dir : e.dn = dn

\* parent_entry.addChild(rdn, attributes) inside the try of the build loop:
\* the child is stored unless the directory has it already, in which case
\* addChild raises and the loop logs the error and goes on
BuildOne(dir, e) == IF DirHas(dir, e.dn) THEN dir ELSE dir \cup {e}

RECURSIVE BuildTree(_, _)
BuildTree(dir, entries) ==
    IF entries = <<>> THEN dir
    ELSE BuildTree(BuildOne(dir, Head(entries)), Tail(entries))

\* sorted(..., key=lambda dn: dn.count(',')): by depth, stable
RECURSIVE SortFrom(_, _)
SortFrom(s, d) ==
    IF s = <<>> THEN <<>>
    ELSE SelectSeq(s, LAMBDA e : Len(e.dn) = d)
         \o SortFrom(SelectSeq(s, LAMBDA e : Len(e.dn) # d), d + 1)

SortByDepth(s) == SortFrom(s, 0)

\* the orders in which a Python set of DNs may be iterated
Orderings(S) ==
    {s \in [1..Cardinality(S) -> S] : \A i, j \in 1..Cardinality(S) : i # j => s[i] # s[j]}

\* sorted_dns of the build with what addChild is given for each: the merged
\* entries (the attribute tokens stand for attributes that hold no plain
\* userPassword, which _upgrade_passwords leaves as they are), or under lazy
\* loading every indexed dn with minimal attributes
BuildOrders(lazy, eager, indexed) ==
    IF lazy
    THEN {SortByDepth([i \in 1..Len(o) |-> Entry(o[i], MinimalAttrs)]) : o \in Orderings(AllDns(indexed.indexed))}
    ELSE {SortByDepth(eager.target)}

\* _load_json up to the build: what the load raised, what it left in
\* self._indexed_files, and the orders in which the build may add the entries
LoadJson(files, content, strategy, lazy, oldIndex) ==
    IF lazy
    THEN With(LoadWithLazyLoading(files, content),
              LAMBDA r : [error |-> r.error, indexed |-> r,
                          orders |-> BuildOrders(TRUE, LoadStart, r)])
    ELSE With(LoadAndMergeFiles(files, content, strategy),
              LAMBDA r : [error |-> r.error, indexed |-> oldIndex,
                          orders |-> BuildOrders(FALSE, r, LazyStart)])

\* _load_json loads self.json_files, whatever the watcher has pending
ReloadScope(files, pend) == files

\* self.root_ref["root"] = root is reached only when nothing was raised
PublishedAlways(error, old, new) == new

PublishedAfter(error, old, new) == IF error = NoError THEN new ELSE old

\* get_root(): the published root, read without the lock
GetRoot == root_ref

\* the entries a search from the given root reaches
Reachable(root) == IF root = 0 THEN {} ELSE ldif_dir

(***************************************************************************)
(* FederatedFileWatcher.  An event is what watchdog hands to on_modified.  *)
(* A threading.Timer is "waiting" until its interval has passed, "fired"   *)
(* once its thread has passed the test of its finished flag and is about   *)
(* to call _process_pending_reloads, "running" while that call holds the   *)
(* watcher's lock for a reload, and "done" afterwards.  Timer.cancel sets  *)
(* the finished flag, which stops a timer only while it is waiting.        *)
(***************************************************************************)
LockFile == "f1.json.lock"
TempFile == "f1.json.tmp"
BackupFile == "f1.json.1700000000.bak"
WatchedDir == "data"

Events ==
    {[src_path |-> p, is_directory |-> FALSE] : p \in Paths \cup {LockFile, TempFile, BackupFile}}
    \cup {[src_path |-> p, is_directory |-> TRUE] : p \in {WatchedDir, F1}}

\* on_modified: not a directory, and Path(event.src_path) in json_files; the
\* legacy branch needs a json_path attribute, which FederatedJSONStorage,
\* the only storage a watcher is made for, does not have
AcceptsAnyFile(ev, files) == ~ev.is_directory

Accepts(ev, files) == ~ev.is_directory /\ ev.src_path \in Range(files)

\* self._timer.cancel() when self._timer is set
CancelTimer(ts, t) ==
    IF t # 0 /\ ts[t] = "waiting" THEN [ts EXCEPT ![t] = "cancelled"] ELSE ts

\* self._timer = threading.Timer(...); self._timer.start()
StartTimerOnlyFirst(ts, i) ==
    IF \E j \in DOMAIN ts : ts[j] # "none" THEN ts ELSE [ts EXCEPT ![i] = "waiting"]

StartTimer(ts, i) == [ts EXCEPT ![i] = "waiting"]

\* the watcher's lock is held by a running _process_pending_reloads
WatcherBusy == \E i \in 1..MaxEvents : timers[i] = "running"

\* the event arrives before the timer of the previous accepted event has run
JoinsBurst == timer # 0 /\ timers[timer] \in {"waiting", "fired"}

OnModified(ev) ==
    /\ nEvents < MaxEvents
    /\ nEvents' = nEvents + 1
    /\ lastEvent' = ev
    /\ IF Accepts(ev, json_files)
       THEN /\ ~WatcherBusy
            /\ pending' = pending \cup {ev.src_path}
            /\ timers' = StartTimer(CancelTimer(timers, timer), nEvents + 1)
            /\ timer' = nEvents + 1
            /\ burstReloads' = IF JoinsBurst THEN burstReloads ELSE 0
            /\ burstBroken' = (JoinsBurst /\ (burstBroken \/ burstReloads > 0))
            /\ unserved' = TRUE
       ELSE UNCHANGED <<pending, timers, timer, burstReloads, burstBroken, unserved>>
    /\ UNCHANGED <<configVars, mergeVars, cacheVars, storeVars, writePathVars, serviceVars>>

\* the interval of a timer passes
TimerExpire(i) ==
    /\ timers[i] = "waiting"
    /\ timers' = [timers EXCEPT ![i] = "fired"]
    /\ UNCHANGED <<pending, timer, nEvents, lastEvent, burstReloads, burstBroken, unserved>>
    /\ UNCHANGED <<configVars, mergeVars, cacheVars, storeVars, writePathVars, serviceVars>>

\* _process_pending_reloads up to the end of the load of _load_json: nothing
\* pending ends the call; a load that raises is logged by the watcher, the
\* pending set is cleared and the call ends; otherwise the build begins.
\* Under lazy loading the load first clears the index and the cache.
ProcessPendingReloads(i) ==
    /\ timers[i] = "fired"
    /\ ~WatcherBusy
    /\ UNCHANGED <<configVars, materialized, nodeLoaded, ldif_dir, writePathVars, serviceVars>>
    /\ UNCHANGED <<timer, nEvents, lastEvent, burstBroken>>
    /\ IF pending = {}
       THEN /\ timers' = [timers EXCEPT ![i] = "done"]
            /\ UNCHANGED <<eagerResult, lazyResult, cache, refAttrs, removed>>
            /\ UNCHANGED <<root_ref, todo, before, lastReload, pending, burstReloads, unserved>>
       ELSE \E load \in {LoadJson(ReloadScope(json_files, pending), fileContent,
                                  merge_strategy, enable_lazy_loading, lazyResult)} :
               /\ UNCHANGED eagerResult
               /\ lazyResult' = load.indexed
               /\ cache' = IF enable_lazy_loading THEN <<>> ELSE cache
               /\ refAttrs' = IF enable_lazy_loading
                              THEN [r \in Refs |-> IF r \in CachedRefs(cache) THEN NoAttrs ELSE refAttrs[r]]
                              ELSE refAttrs
               /\ removed' = IF enable_lazy_loading THEN CachedRefs(cache) ELSE removed
               /\ before' = [root |-> root_ref, dir |-> ldif_dir]
               /\ burstReloads' = burstReloads + 1
               /\ unserved' = FALSE
               /\ IF load.error # NoError
                  THEN /\ lastReload' = "failed"
                       /\ root_ref' = PublishedAfter(load.error, root_ref, root_ref + 1)
                       /\ pending' = {}
                       /\ timers' = [timers EXCEPT ![i] = "done"]
                       /\ todo' = <<>>
                  ELSE /\ lastReload' = "running"
                       /\ timers' = [timers EXCEPT ![i] = "running"]
                       /\ todo' \in load.orders
                       /\ UNCHANGED <<root_ref, pending>>

\* one turn of the build loop of the running reload
BuildStep ==
    /\ WatcherBusy
    /\ todo # <<>>
    /\ ldif_dir' = BuildOne(ldif_dir, Head(todo))
    /\ todo' = Tail(todo)
    /\ UNCHANGED <<root_ref, before, lastReload>>
    /\ UNCHANGED <<configVars, mergeVars, cacheVars, watcherVars, writePathVars, serviceVars>>

\* the build returned: the root is published, _load_json returns and
\* _process_pending_reloads clears the pending set and releases the lock
Publish(i) ==
    /\ timers[i] = "running"
    /\ todo = <<>>
    /\ root_ref' = PublishedAfter(NoError, root_ref, root_ref + 1)
    /\ lastReload' = "ok"
    /\ pending' = {}
    /\ timers' = [timers EXCEPT ![i] = "done"]
    /\ UNCHANGED <<ldif_dir, todo, before>>
    /\ UNCHANGED <<timer, nEvents, lastEvent, burstReloads, burstBroken, unserved>>
    /\ UNCHANGED <<configVars, mergeVars, cacheVars, writePathVars, serviceVars>>

\* somebody rewrites, damages or removes a source file
WriteFile(p, c) ==
    /\ fileContent[p] # c
    /\ fileContent' = [fileContent EXCEPT ![p] = c]
    /\ UNCHANGED <<json_files, merge_strategy, enable_lazy_loading>>
    /\ UNCHANGED <<mergeVars, cacheVars, storeVars, watcherVars, writePathVars, serviceVars>>

\* After construction: the first load succeeded and published root 1.
Constructed ==
    /\ \A p \in Paths \ Range(json_files) : fileContent[p] = Missing
    /\ LET load == LoadJson(json_files, fileContent, merge_strategy, enable_lazy_loading, LazyUnset)
       IN /\ load.error = NoError
          /\ eagerResult = Unset
          /\ lazyResult = load.indexed
          /\ ldif_dir = BuildTree({}, CHOOSE o \in load.orders : TRUE)
    /\ materialized = NotMaterialized
    /\ CacheIdle
    /\ root_ref = 1
    /\ todo = <<>>
    /\ before = [root |-> 0, dir |-> {}]
    /\ lastReload = "none"
    /\ WatcherIdle

(***************************************************************************)
(* Spec: every configuration, the source files rewritten at any time, and  *)
(* up to MaxReloadEvents events for source files.                          *)
(***************************************************************************)
FileEvent(p) == [src_path |-> p, is_directory |-> FALSE]

Init ==
    /\ json_files \in {<<F1>>, <<F1, F2>>}
    /\ fileContent \in [Paths -> StoreContents]
    /\ merge_strategy \in Strategies
    /\ enable_lazy_loading \in BOOLEAN
    /\ Constructed
    /\ WritePathIdle
    /\ ServiceIdle

Next ==
    \/ \E p \in Range(json_files) : nEvents < MaxReloadEvents /\ OnModified(FileEvent(p))
    \/ \E i \in 1..MaxEvents : TimerExpire(i)
    \/ \E i \in 1..MaxEvents : ProcessPendingReloads(i)
    \/ BuildStep
    \/ \E i \in 1..MaxEvents : Publish(i)
    \/ \E p \in Range(json_files), c \in StoreContents : WriteFile(p, c)

Spec == Init /\ [][Next]_vars

(***************************************************************************)
(* SpecWatcher: up to MaxEvents events of every kind; the second source    *)
(* file is fixed and the first is rewritten at any time.                   *)
(***************************************************************************)
InitWatcher ==
    /\ json_files \in {<<F1>>, <<F1, F2>>}
    /\ fileContent \in [Paths -> StoreContents]
    /\ F2 \in Range(json_files) => fileContent[F2] = ListContent(<<Entry(DnA, "A2"), Entry(DnC, "A1")>>)
    /\ merge_strategy = "last_wins"
    /\ enable_lazy_loading \in BOOLEAN
    /\ Constructed
    /\ WritePathIdle
    /\ ServiceIdle

NextWatcher ==
    \/ \E ev \in Events : OnModified(ev)
    \/ \E i \in 1..MaxEvents : TimerExpire(i)
    \/ \E i \in 1..MaxEvents : ProcessPendingReloads(i)
    \/ BuildStep
    \/ \E i \in 1..MaxEvents : Publish(i)
    \/ \E c \in StoreContents : WriteFile(F1, c)

SpecWatcher == InitWatcher /\ [][NextWatcher]_vars

\* The timer threads keep running: while one of them can take a step, one
\* of them does.
TimerThreads ==
    \/ \E i \in 1..MaxEvents : TimerExpire(i)
    \/ \E i \in 1..MaxEvents : ProcessPendingReloads(i)
    \/ BuildStep
    \/ \E i \in 1..MaxEvents : Publish(i)

\* SpecLive: SpecWatcher for the two-file Source File Set, with the fairness
\* of the timer threads.
InitLive == InitWatcher /\ json_files = <<F1, F2>>

SpecLive == InitLive /\ [][NextWatcher]_vars /\ WF_vars(TimerThreads)

(***************************************************************************)
(* Claims about the reload and the file watcher.                           *)
(***************************************************************************)

\* C1: while a reload is running, get_root() returns the root published
\* before it, and no node reachable from that root has been created, changed
\* or removed by the reload.
C1_ReloadOffToTheSide ==
    lastReload = "running" => GetRoot = before.root /\ Reachable(GetRoot) = before.dir

\* C2: after a reload of the watcher that failed (the error was logged),
\* get_root() returns the root of before the reload, with the content of
\* before the reload.
C2_FailedReloadKeepsRoot ==
    lastReload = "failed" => GetRoot = before.root /\ Reachable(GetRoot) = before.dir

C2_Witness ==
    /\ lastReload = "failed"
    /\ fileContent[F1] = Malformed
    /\ GetRoot = 1
    /\ Reachable(GetRoot) # {}

\* C8: in a burst of events for source files, each arriving before the timer
\* of the previous one has run, the watcher begins one reload at most, and no
\* event of the burst arrives after a reload of the burst began.
C8_OneReloadPerBurst == burstReloads <= 1 /\ ~burstBroken

Irrelevant(ev) == ev.is_directory \/ ev.src_path \notin Range(json_files)

\* C10: an event for a directory, or for a file outside the Source File Set,
\* leaves the pending set, every timer, the published tree and the reload
\* state as they were, so that nothing that follows is caused by it.
C10_IrrelevantEventsIgnored ==
    [][(nEvents' = nEvents + 1 /\ Irrelevant(lastEvent'))
        => UNCHANGED <<pending, timers, timer, storeVars, lazyResult, burstReloads>>]_vars

C10_Witness ==
    /\ lastEvent = [src_path |-> LockFile, is_directory |-> FALSE]
    /\ timer # 0
    /\ timers[timer] = "waiting"
    /\ pending = {F1}

\* the step in which _process_pending_reloads begins a reload
ReloadBegins == burstReloads' = burstReloads + 1

\* C9: every accepted event is eventually followed by the beginning of a
\* reload; that reload loads all of json_files (it raises what the load of
\* all files raises, or builds what the load of all files gives); and once
\* every event has been followed by a reload and no reload is running, the
\* pending set is empty.
C9_EventuallyFullReload ==
    /\ unserved ~> ~unserved
    /\ [][ReloadBegins =>
            LET load == LoadJson(json_files, fileContent, merge_strategy,
                                 enable_lazy_loading, lazyResult)
            IN IF load.error # NoError
               THEN lastReload' = "failed" /\ pending' = {}
               ELSE lastReload' = "running" /\ todo' \in load.orders]_vars
    /\ [](~unserved /\ ~WatcherBusy => pending = {})

C9_Witness ==
    /\ json_files = <<F1, F2>>
    /\ nEvents = 2
    /\ pending = {}
    /\ ~unserved
    /\ lastReload = "ok"
    /\ \E i \in 1..MaxEvents : timers[i] = "cancelled"

(***************************************************************************)
(* AtomicJSONWriter: the write protocol of one target file, followed by    *)
(* MaxWriters concurrent writers. The class is imported by the tests but   *)
(* is not part of src/ldap_server/storage/json.py; the steps are the ones  *)
(* of the documented protocol, used as                                     *)
(*     with AtomicJSONWriter(path, backup_enabled, lock_timeout) as writer:*)
(*         writer.write_json(data)                                         *)
(***************************************************************************)
otherThanWriter == <<configVars, mergeVars, cacheVars, storeVars, watcherVars, apiVars, serviceVars>>

\* The states in which a writer holds the lock.
Holding == {"locked", "backed_up", "opened", "half", "written", "synced", "committed", "failed"}

\* the lock is taken regardless of its holder
CanAcquireAlways(holder) == TRUE

\* (1) the lock is exclusive: it is free when nobody holds it
CanAcquire(holder) == holder = 0

\* (1) the writer takes the lock and writes its pid into the lock file
AcquireLock(w) ==
    /\ pc[w] \in {"idle", "waiting"}
    /\ CanAcquire(lock)
    /\ lock' = w
    /\ lock_file' = w
    /\ pc' = [pc EXCEPT ![w] = "locked"]
    /\ atLock' = [atLock EXCEPT ![w] = target]
    /\ UNCHANGED <<backup_enabled, temp_file, target, backups>>
    /\ UNCHANGED otherThanWriter

\* (1) the lock is held by somebody else: the writer blocks
WaitForLock(w) ==
    /\ pc[w] = "idle"
    /\ ~CanAcquire(lock)
    /\ pc' = [pc EXCEPT ![w] = "waiting"]
    /\ UNCHANGED <<backup_enabled, lock, lock_file, temp_file, target, backups, atLock>>
    /\ UNCHANGED otherThanWriter

\* a writer whose wait ran out goes on as if it held the lock
TimedOutProceeds(state) == "backed_up"

\* (1) past lock_timeout the writer fails with the lock timeout error
TimedOut(state) == "timed_out"

LockTimeout(w) ==
    /\ pc[w] = "waiting"
    /\ pc' = [pc EXCEPT ![w] = TimedOut(pc[w])]
    /\ UNCHANGED <<backup_enabled, lock, lock_file, temp_file, target, backups, atLock>>
    /\ UNCHANGED otherThanWriter

\* (2) with backups enabled an existing target is copied to a backup file
BackupTarget(w) ==
    /\ pc[w] = "locked"
    /\ backups' = IF backup_enabled /\ target.exists THEN backups \cup {target} ELSE backups
    /\ pc' = [pc EXCEPT ![w] = "backed_up"]
    /\ UNCHANGED <<backup_enabled, lock, lock_file, temp_file, target, atLock>>
    /\ UNCHANGED otherThanWriter

\* (3) write_json creates the sibling temporary file ...
OpenTemp(w) ==
    /\ pc[w] = "backed_up"
    /\ temp_file' = File(<<>>)
    /\ pc' = [pc EXCEPT ![w] = "opened"]
    /\ UNCHANGED <<backup_enabled, lock, lock_file, target, backups, atLock>>
    /\ UNCHANGED otherThanWriter

\* (3) ... and writes the new content into it, piece by piece
WriteChunk(w) ==
    /\ pc[w] \in {"opened", "half"}
    /\ temp_file' = File(Append(temp_file.data, w))
    /\ pc' = [pc EXCEPT ![w] = IF pc[w] = "opened" THEN "half" ELSE "written"]
    /\ UNCHANGED <<backup_enabled, lock, lock_file, target, backups, atLock>>
    /\ UNCHANGED otherThanWriter

\* (4) flush and fsync of the temporary file
Fsync(w) ==
    /\ pc[w] = "written"
    /\ pc' = [pc EXCEPT ![w] = "synced"]
    /\ UNCHANGED <<backup_enabled, lock, lock_file, temp_file, target, backups, atLock>>
    /\ UNCHANGED otherThanWriter

\* (5) on success the temporary file is renamed over the target
Rename(w) ==
    /\ pc[w] = "synced"
    /\ target' = temp_file
    /\ temp_file' = NoFile
    /\ pc' = [pc EXCEPT ![w] = "committed"]
    /\ UNCHANGED <<backup_enabled, lock, lock_file, backups, atLock>>
    /\ UNCHANGED otherThanWriter

\* the temporary file is left behind
DiscardKeeps(file) == file

\* (5) the temporary file is deleted
Discard(file) == NoFile

\* (5) a failure before the rename: a write-time error, or an exception
\* raised inside the with block
Fail(w) ==
    /\ pc[w] \in {"locked", "backed_up", "opened", "half", "written", "synced"}
    /\ temp_file' = Discard(temp_file)
    /\ pc' = [pc EXCEPT ![w] = "failed"]
    /\ UNCHANGED <<backup_enabled, lock, lock_file, target, backups, atLock>>
    /\ UNCHANGED otherThanWriter

\* the lock is released on the success path only
UnlockIfCommitted(state, holder) == IF state = "committed" THEN 0 ELSE holder

\* (6) the lock is released and the lock file removed on every exit path
Unlock(state, holder) == 0

ReleaseLock(w) ==
    /\ pc[w] \in {"committed", "failed"}
    /\ lock' = Unlock(pc[w], lock)
    /\ lock_file' = Unlock(pc[w], lock_file)
    /\ pc' = [pc EXCEPT ![w] = IF pc[w] = "committed" THEN "done" ELSE "aborted"]
    /\ UNCHANGED <<backup_enabled, temp_file, target, backups, atLock>>
    /\ UNCHANGED otherThanWriter

InitWriter ==
    /\ json_files = <<F1>>
    /\ fileContent = [p \in Paths |-> Missing]
    /\ merge_strategy = "last_wins"
    /\ enable_lazy_loading = FALSE
    /\ MergeIdle
    /\ CacheIdle
    /\ StoreIdle
    /\ WatcherIdle
    /\ ApiIdle
    /\ ServiceIdle
    /\ backup_enabled \in BOOLEAN
    /\ pc = [w \in Writers |-> "idle"]
    /\ lock = 0
    /\ lock_file = 0
    /\ temp_file = NoFile
    /\ target \in {NoFile, Original}
    /\ backups = {}
    /\ atLock = [w \in Writers |-> NoFile]

NextWriter ==
    \/ \E w \in Writers : AcquireLock(w)
    \/ \E w \in Writers : WaitForLock(w)
    \/ \E w \in Writers : LockTimeout(w)
    \/ \E w \in Writers : BackupTarget(w)
    \/ \E w \in Writers : OpenTemp(w)
    \/ \E w \in Writers : WriteChunk(w)
    \/ \E w \in Writers : Fsync(w)
    \/ \E w \in Writers : Rename(w)
    \/ \E w \in Writers : Fail(w)
    \/ \E w \in Writers : ReleaseLock(w)

SpecWriter == InitWriter /\ [][NextWriter]_vars

\* C11: concurrent writers of one target never interleave: at most one
\* writer holds the lock at any moment, a writer is past the lock only as its
\* holder, and the target always holds the original content or the complete
\* content of one writer that committed, never a part and never a mix.
Committed(w) == pc[w] \in {"committed", "done"}

C11_WritersNeverInterleave ==
    /\ Cardinality({w \in Writers : pc[w] \in Holding}) <= 1
    /\ \A w \in Writers : pc[w] \in Holding => lock = w
    /\ target \in {NoFile, Original} \cup {Content(w) : w \in {v \in Writers : Committed(v)}}

C11_Witness ==
    \E w, v \in Writers :
        /\ w # v
        /\ pc[w] = "done"
        /\ pc[v] = "done"
        /\ atLock[v] = Content(w)
        /\ target = Content(v)

\* C12: when a write has failed before the rename, the target holds exactly
\* what it held when the write began (when the writer got the lock) and the
\* temporary file is gone.
C12_FailedWriteRollsBack ==
    \A w \in Writers : pc[w] = "failed" => target = atLock[w] /\ temp_file = NoFile

\* a writer failed after its backup step, with the original content in place
C12_Witness ==
    \E w \in Writers :
        /\ pc[w] = "failed"
        /\ atLock[w] = Original
        /\ Original \in backups
        /\ temp_file = NoFile

\* C13: once no write attempt is under way (each one ended by success, failure
\* or exception) the lock is released and the lock file removed, so the next
\* writer can acquire the lock.
C13_LockAlwaysReleased ==
    (\A w \in Writers : pc[w] \notin Holding) => lock = 0 /\ lock_file = 0 /\ CanAcquire(lock)

\* one attempt ended by a failure, another by success, and the lock is free
C13_Witness ==
    \E w, v \in Writers :
        /\ pc[w] = "aborted"
        /\ pc[v] = "done"
        /\ atLock[v] = atLock[w]
        /\ lock_file = 0

\* C14: a lock wait ends only by acquisition or by the timeout; the timeout
\* leaves the lock, the files and the other writers as they are, and a writer
\* that timed out never gets its content into the target.
C14_LockTimeoutWritesNothing ==
    /\ [][\A w \in Writers : pc[w] = "waiting" => pc'[w] \in {"waiting", "locked", "timed_out"}]_vars
    /\ [][\A w \in Writers :
            pc[w] = "waiting" /\ pc'[w] = "timed_out"
                => /\ UNCHANGED <<lock, lock_file, temp_file, target, backups>>
                   /\ \A v \in Writers \ {w} : pc'[v] = pc[v]]_vars
    /\ [](\A w \in Writers : pc[w] = "timed_out" => target # Content(w) /\ lock # w)

\* one writer timed out while the holder went on and committed its content
C14_Witness ==
    \E w, v \in Writers :
        /\ pc[w] = "timed_out"
        /\ pc[v] = "done"
        /\ target = Content(v)

(***************************************************************************)
(* The store's write operations add_entry, modify_entry, delete_entry and  *)
(* bulk_write_entries. The tests call them on JSONStorage, but they are    *)
(* not part of src/ldap_server/storage/json.py; they are modelled from the *)
(* documented contract and from what the tests expect of them: rejected    *)
(* when read-only, the new record list written through the atomic writer,  *)
(* and after the commit a full reload, which is the source's _load_json.   *)
(***************************************************************************)
\* the record list with every entry in place of the record of the same dn, or
\* after the others when there is none
RECURSIVE UpsertAll(_, _)
UpsertAll(records, entries) ==
    IF entries = <<>> THEN records
    ELSE UpsertAll(DictSet(records, Head(entries).dn, Head(entries).attributes), Tail(entries))

\* The full record list an operation writes back, or that it has nothing to
\* write: add_entry of a dn the file has, modify_entry and delete_entry of a
\* dn it does not have.
NewRecords(op, records, entries) ==
    LET dn == Head(entries).dn
    IN CASE op = "add" ->
              [ok |-> ~DictHas(records, dn), records |-> Append(records, Head(entries))]
         [] op = "modify" ->
              [ok |-> DictHas(records, dn), records |-> UpsertAll(records, entries)]
         [] op = "delete" ->
              [ok |-> DictHas(records, dn), records |-> SelectSeq(records, LAMBDA r : r.dn # dn)]
         [] OTHER ->
              [ok |-> TRUE, records |-> UpsertAll(records, entries)]

\* no operation is rejected for the read-only flag
RejectedNever(ro) == FALSE

\* every write operation starts by refusing when the store is read-only
Rejected(ro) == ro

\* What the atomic writer can come to for a single caller.
WriterOutcomes == {"commit", "lock_timeout", "write_error"}

\* One write operation on the first source file, from call to return.
WriteOperation(op, entries, outcome) ==
    LET records == fileContent[F1].entries
        new == NewRecords(op, records, entries)
        done == ~Rejected(read_only) /\ new.ok /\ outcome = "commit"
        written == [fileContent EXCEPT ![F1] = ListContent(new.records)]
    IN /\ lastWrite.n < MaxWrites
       /\ lastWrite' = [op |-> op, entries |-> entries, records |-> records,
                        result |-> done, n |-> lastWrite.n + 1]
       /\ IF done
          THEN /\ fileContent' = written
               /\ \E load \in {LoadJson(json_files, written, merge_strategy, enable_lazy_loading, lazyResult)} :
                    /\ before' = [root |-> root_ref, dir |-> ldif_dir]
                    /\ root_ref' = PublishedAfter(load.error, root_ref, root_ref + 1)
                    /\ lastReload' = IF load.error = NoError THEN "ok" ELSE "failed"
                    /\ IF load.error = NoError
                       THEN \E order \in load.orders : ldif_dir' = BuildTree(ldif_dir, order)
                       ELSE ldif_dir' = ldif_dir
               /\ UNCHANGED todo
          ELSE UNCHANGED <<fileContent, storeVars>>
       /\ UNCHANGED <<json_files, merge_strategy, enable_lazy_loading, read_only>>
       /\ UNCHANGED <<mergeVars, cacheVars, watcherVars, writerVars, serviceVars>>

WriteDNs == {DnA, DnB}
WriteAttrs == {"A1", "A2"}

AddEntry(dn, attributes, outcome) == WriteOperation("add", <<Entry(dn, attributes)>>, outcome)

ModifyEntry(dn, attributes, outcome) == WriteOperation("modify", <<Entry(dn, attributes)>>, outcome)

DeleteEntry(dn, outcome) == WriteOperation("delete", <<Entry(dn, NoAttrs)>>, outcome)

BulkWriteEntries(entries, outcome) == WriteOperation("bulk", entries, outcome)

\* SpecWrite: an eagerly loaded store of one or two source files, writable
\* or read-only, and up to MaxWrites write operations on the first file.
InitWrite ==
    /\ json_files \in {<<F1>>, <<F1, F2>>}
    /\ fileContent \in [Paths -> {ListContent(<<>>), ListContent(<<Entry(DnA, "A1")>>),
                                  ListContent(<<Entry(DnC, "A1")>>), Missing}]
    /\ fileContent[F1] \in {ListContent(<<>>), ListContent(<<Entry(DnA, "A1")>>)}
    /\ F2 \in Range(json_files) => fileContent[F2] = ListContent(<<Entry(DnC, "A1")>>)
    /\ merge_strategy = "last_wins"
    /\ enable_lazy_loading = FALSE
    /\ Constructed
    /\ WriterIdle
    /\ ServiceIdle
    /\ read_only \in BOOLEAN
    /\ lastWrite = NoWrite

NextWrite ==
    \/ \E dn \in WriteDNs, a \in WriteAttrs, o \in WriterOutcomes : AddEntry(dn, a, o)
    \/ \E dn \in WriteDNs, a \in WriteAttrs, o \in WriterOutcomes : ModifyEntry(dn, a, o)
    \/ \E dn \in WriteDNs, o \in WriterOutcomes : DeleteEntry(dn, o)
    \/ \E a, b \in WriteAttrs, o \in WriterOutcomes :
          BulkWriteEntries(<<Entry(DnA, a), Entry(DnB, b)>>, o)

SpecWrite == InitWrite /\ [][NextWrite]_vars

\* C15: on a read-only store every write operation returns failure and
\* changes no source file, not the published root and the tree it shows, and
\* not the Source File Set.
C15_ReadOnlyRejectsWrites ==
    [][(lastWrite'.n # lastWrite.n /\ read_only)
          => /\ ~lastWrite'.result
             /\ UNCHANGED <<fileContent, json_files, storeVars>>]_vars

\* a modify_entry of a record the file has was refused by a read-only store
C15_Witness ==
    /\ read_only
    /\ lastWrite.op = "modify"
    /\ DictHas(fileContent[F1].entries, Head(lastWrite.entries).dn)
    /\ ~lastWrite.result

\* C16: after a write operation returned success, its source file holds the
\* full new record set (the entries written, none of a deleted dn, the other
\* records as they were), a reload has run and published, and the tree of
\* get_root() shows every entry written with the attributes written and no
\* entry of a deleted dn.
WrittenDNs == {lastWrite.entries[i].dn : i \in 1..Len(lastWrite.entries)}

C16_WriteThenReloadReflected ==
    lastWrite.result =>
        /\ fileContent[F1].kind = "list"
        /\ \A r \in Range(lastWrite.records) : r.dn \notin WrittenDNs => r \in Range(fileContent[F1].entries)
        /\ lastReload = "ok" /\ GetRoot = before.root + 1
        /\ IF lastWrite.op = "delete"
           THEN /\ ~DictHas(fileContent[F1].entries, Head(lastWrite.entries).dn)
                /\ ~DirHas(Reachable(GetRoot), Head(lastWrite.entries).dn)
           ELSE /\ Range(lastWrite.entries) \subseteq Range(fileContent[F1].entries)
                /\ Range(lastWrite.entries) \subseteq Reachable(GetRoot)

(***************************************************************************)
(* SpecLoad: FederatedJSONStorage.__init__ on every configuration (one or  *)
(* two listed files, each a list, malformed or missing, every merge        *)
(* strategy string, eager or lazy), and after it up to MaxLoads further    *)
(* _load_json calls while the listed files are rewritten.                  *)
(***************************************************************************)
MaxLoads == 2

\* merge_strategy is a plain str: the three documented values and any other
AnyStrategy == Strategies \cup {"newest_wins"}

\* the load of _load_json as __init__ and the watcher run it: the loader's
\* result (the load statistics come from it) next to what LoadJson gives
LoadAll(files, content, strategy, lazy, oldIndex) ==
    [load |-> LoadJson(files, content, strategy, lazy, oldIndex),
     eager |-> IF lazy THEN Unset ELSE LoadAndMergeFiles(files, content, strategy)]

\* the ValueError of the load is taken as it is
InitErrorAsRaised(error, files, content) == error

\* __init__, except ValueError: the "No JSON files could be loaded" of a
\* single listed file that does not exist becomes FileNotFoundError
InitError(error, files, content) ==
    IF Len(files) = 1 /\ error = "no_files" /\ content[files[1]].kind = "missing"
    THEN "FileNotFoundError"
    ELSE error

\* FederatedJSONStorage.__init__: self._load_json() and its except clause
Construct ==
    /\ root_ref = 0
    /\ lastReload = "none"
    /\ \E r \in {LoadAll(json_files, fileContent, merge_strategy, enable_lazy_loading, lazyResult)} :
         /\ eagerResult' = r.eager
         /\ lazyResult' = r.load.indexed
         /\ lastReload' = InitError(r.load.error, json_files, fileContent)
         /\ root_ref' = PublishedAfter(r.load.error, root_ref, root_ref + 1)
         /\ IF r.load.error = NoError
            THEN \E order \in r.load.orders : ldif_dir' = BuildTree(ldif_dir, order)
            ELSE ldif_dir' = ldif_dir
    /\ before' = [root |-> root_ref, dir |-> ldif_dir]
    /\ UNCHANGED <<configVars, materialized, cacheVars, todo, watcherVars, writePathVars, serviceVars>>

\* a later self._load_json() from start to end
Reload ==
    /\ root_ref \in 1..MaxLoads
    /\ \E r \in {LoadAll(json_files, fileContent, merge_strategy, enable_lazy_loading, lazyResult)} :
         /\ eagerResult' = r.eager
         /\ lazyResult' = r.load.indexed
         /\ lastReload' = r.load.error
         /\ root_ref' = PublishedAfter(r.load.error, root_ref, root_ref + 1)
         /\ IF r.load.error = NoError
            THEN \E order \in r.load.orders : ldif_dir' = BuildTree(ldif_dir, order)
            ELSE ldif_dir' = ldif_dir
    /\ before' = [root |-> root_ref, dir |-> ldif_dir]
    /\ UNCHANGED <<configVars, materialized, cacheVars, todo, watcherVars, writePathVars, serviceVars>>

InitLoad ==
    /\ json_files \in {<<F1>>, <<F1, F2>>, <<F2, F1>>}
    /\ fileContent \in [Paths -> StoreContents]
    /\ \A p \in Paths \ Range(json_files) : fileContent[p] = Missing
    /\ merge_strategy \in AnyStrategy
    /\ enable_lazy_loading \in BOOLEAN
    /\ MergeIdle
    /\ CacheIdle
    /\ StoreIdle
    /\ WatcherIdle
    /\ WritePathIdle
    /\ ServiceIdle

NextLoad ==
    \/ Construct
    \/ Reload
    \/ \E p \in Range(json_files), c \in StoreContents : root_ref # 0 /\ WriteFile(p, c)

SpecLoad == InitLoad /\ [][NextLoad]_vars

\* The listed files by what they hold, and the files_loaded of the load
\* statistics.
Listed(kinds) == {p \in Range(json_files) : fileContent[p].kind \in kinds}

FilesLoaded == IF enable_lazy_loading THEN lazyResult.files_loaded ELSE eagerResult.files_loaded

\* A step of SpecLoad that leaves the files alone is a load: the one of
\* __init__ while nothing is published, a later one afterwards.
LoadStep == fileContent' = fileContent

C18_BadSourceSkipped ==
    [][LoadStep =>
        /\ ( /\ Len(json_files) > 1
             /\ Listed({"malformed"}) # {}
             /\ Listed({"list"}) # {}
             /\ merge_strategy \in {"first_wins", "last_wins"} )
              => /\ lastReload' = "ok"
                 /\ FilesLoaded' = Cardinality(Listed({"list"}))
        /\ (Listed({"malformed"}) # {} /\ Listed({"list"}) = {}) => lastReload' # "ok"]_vars

\* C19: a store given a merge strategy other than first_wins, last_wins and
\* error is never constructed: the constructor fails, with or without a
\* duplicate path in the sources, eagerly and lazily, so that no later load
\* is the first to report the unknown strategy.
C19_UnknownPolicyFailsConstruction ==
    merge_strategy \notin Strategies =>
        /\ root_ref = 0
        /\ lastReload \notin {"ok"}

(***************************************************************************)
(* SpecParse: FederatedJSONStorage._load_json_entries (and the static      *)
(* JSONStorage._load_json_entries, which is the same code) applied to what *)
(* a file can hold.  The text of the file is given by what json.load makes *)
(* of it: a syntax error, a list of items, an object with the key entries  *)
(* holding the items, another object, or a scalar.  An item is an object,  *)
(* with or without the keys dn and attributes, or a number; attributes is  *)
(* given by the kind of value it is.                                       *)
(***************************************************************************)
Roots == {"syntax_error", "list", "object_entries", "object", "scalar"}

AttributeKinds ==
    { "absent",          \* the record has no key attributes
      "not_dict",        \* attributes is not an object
      "string_lists",    \* every value is a non-empty list of strings
      "empty_list",      \* some value is []
      "non_string_item", \* some value is a list holding a number
      "non_list_value" } \* some value is not a list

Items ==
    [is_object : {TRUE}, has_dn : BOOLEAN, attributes : AttributeKinds]
        \cup {[is_object |-> FALSE, has_dn |-> FALSE, attributes |-> "absent"]}

RawData == [kind : Roots, entries : SeqsUpTo(Items, MaxRecords)]

\* the body of the loop over the items: what it raises for one item
ItemError(e) ==
    IF ~e.is_object THEN "TypeError"
    ELSE IF ~e.has_dn \/ e.attributes = "absent" THEN "ValueError"
    ELSE IF e.attributes = "not_dict" THEN "ValueError"
    ELSE IF e.attributes = "non_list_value" THEN "ValueError"
    ELSE NoError

\* _load_json_entries: json.load, the root must be a list, every item is
\* checked in file order, and the data is returned as loaded
LoadJsonEntries(data) ==
    IF data.kind = "syntax_error" THEN [error |-> "JSONDecodeError", entries |-> <<>>]
    ELSE IF data.kind # "list" THEN [error |-> "ValueError", entries |-> <<>>]
    ELSE LET bad == {i \in 1..Len(data.entries) : ItemError(data.entries[i]) # NoError} IN
         IF bad # {}
         THEN [error |-> ItemError(data.entries[CHOOSE i \in bad : \A j \in bad : i <= j]),
               entries |-> <<>>]
         ELSE [error |-> NoError, entries |-> data.entries]

NotParsed == [error |-> "unset", entries |-> <<>>]

\* one call of _load_json_entries(path); eagerResult holds what it returned
\* or raised
LoadEntries(p) ==
    /\ eagerResult = NotParsed
    /\ eagerResult' = LoadJsonEntries(fileContent[p])
    /\ UNCHANGED <<lazyResult, materialized, configVars, cacheVars, storeVars, watcherVars, writePathVars, serviceVars>>

InitParse ==
    /\ json_files = <<F1>>
    /\ fileContent \in [Paths -> RawData \cup {Missing}]
    /\ fileContent[F1] \in RawData
    /\ fileContent[F2] = Missing
    /\ merge_strategy = "last_wins"
    /\ enable_lazy_loading = FALSE
    /\ eagerResult = NotParsed
    /\ lazyResult = LazyUnset
    /\ materialized = NotMaterialized
    /\ CacheIdle
    /\ StoreIdle
    /\ WatcherIdle
    /\ WritePathIdle
    /\ ServiceIdle

NextParse == LoadEntries(F1)

SpecParse == InitParse /\ [][NextParse]_vars

\* C20: loading a file's content succeeds exactly when the content is a list
\* of records, bare or under the key entries of an object, whose every
\* record has a dn and an attributes map of non-empty lists of strings; it
\* then returns the records in file order; every other content raises; and
\* the call changes nothing of the store.
WellFormed(data) ==
    /\ data.kind \in {"list", "object_entries"}
    /\ \A i \in 1..Len(data.entries) :
          /\ data.entries[i].is_object
          /\ data.entries[i].has_dn
          /\ data.entries[i].attributes = "string_lists"

C20_LoaderAcceptsExactlyRecords ==
    /\ [](eagerResult # NotParsed =>
            /\ eagerResult.error = NoError <=> WellFormed(fileContent[F1])
            /\ eagerResult.error = NoError => eagerResult.entries = fileContent[F1].entries)
    /\ [][UNCHANGED <<configVars, lazyResult, materialized, cacheVars, storeVars, watcherVars, writePathVars, serviceVars>>]_vars

(***************************************************************************)
(* SpecTree: FederatedJSONStorage._build_ldif_tree with                    *)
(* _ensure_parent_exists on records of every depth.  A node of the tree is *)
(* kept by its own path: addChild(rdn, ...) on an entry makes the node     *)
(* whose path is the rdn joined with the path of that entry, and raises    *)
(* when the directory has that node already.  The first build, in          *)
(* __init__, finds the directory of mkdtemp empty; a later build works on  *)
(* the same directory.                                                     *)
(***************************************************************************)
DnX == <<"uid=x", "ou=b", "dc=a">>
DnBad == <<"no-equals-sign">>
TreeDNs == {DnA, DnB, DnX, DnBad}

\* DistinguishedName(stringValue=dn_str) raises for a component without "="
Parseable(dn) == dn # DnBad

SynthAttrs == "synthesized"  \* the attrs _ensure_parent_exists makes up

\* What the except branch of _ensure_parent_exists meets when it asks the
\* grandparent entry for _children: no such attribute (the grandparent is
\* returned), a mapping holding the node (it is used), or something that
\* cannot be searched (the lookup raises).
ChildrenLookups == {"no_attribute", "found", "raises"}

BuildStart(dir) == [dir |-> dir, created |-> (<<>> :> <<>>), entry |-> <<>>, error |-> FALSE]

\* _ensure_parent_exists(parent_dn_str, created_entries, root): the entry
\* to add the child to, the intermediate entries created on the way
RECURSIVE EnsureParentExists(_, _, _)
EnsureParentExists(st, parent_dn, lookup) ==
    IF parent_dn \in DOMAIN st.created THEN [st EXCEPT !.entry = st.created[parent_dn]]
    ELSE With(IF Len(parent_dn) > 1
              THEN EnsureParentExists(st, Tail(parent_dn), lookup)
              ELSE [st EXCEPT !.entry = <<>>],
              LAMBDA g :
                LET node == <<Head(parent_dn)>> \o g.entry IN
                IF g.error THEN g
                ELSE IF ~DirHas(g.dir, node)
                THEN [g EXCEPT !.dir = @ \cup {Entry(node, SynthAttrs)},
                               !.created = (parent_dn :> node) @@ @,
                               !.entry = node]
                ELSE IF lookup = "found"
                THEN [g EXCEPT !.created = (parent_dn :> node) @@ @, !.entry = node]
                ELSE IF lookup = "raises" THEN [g EXCEPT !.error = TRUE]
                ELSE g)

\* the body of the loop of _build_ldif_tree for one dn: whatever is raised
\* is logged and the loop goes on
BuildEntry(st, e, lookup) ==
    IF ~Parseable(e.dn) THEN st
    ELSE With(EnsureParentExists([st EXCEPT !.error = FALSE], Tail(e.dn), lookup),
              LAMBDA p :
                LET node == <<Head(e.dn)>> \o p.entry IN
                IF p.error \/ DirHas(p.dir, node) THEN p
                ELSE [p EXCEPT !.dir = @ \cup {Entry(node, e.attributes)},
                               !.created = (e.dn :> node) @@ @])

RECURSIVE BuildEntries(_, _, _)
BuildEntries(st, entries, lookup) ==
    IF entries = <<>> THEN st
    ELSE With(BuildEntry(st, Head(entries), lookup),
              LAMBDA built : BuildEntries(built, Tail(entries), lookup))

\* _build_ldif_tree(entries) on the directory as it is: entries_by_dn, the
\* dns sorted by depth, one addChild each
BuildLdifTree(dir, entries, lookup) ==
    BuildEntries(BuildStart(dir), SortByDepth(UpsertAll(<<>>, entries)), lookup).dir

\* _load_json of an eager store of one file, from start to end: the first
\* one is __init__'s, on the empty directory
LoadAndBuild ==
    /\ root_ref < MaxLoads
    /\ fileContent[F1].kind = "list"
    /\ \E lookup \in ChildrenLookups :
         ldif_dir' = BuildLdifTree(ldif_dir, fileContent[F1].entries, lookup)
    /\ root_ref' = root_ref + 1
    /\ before' = [root |-> root_ref, dir |-> ldif_dir]
    /\ lastReload' = "ok"
    /\ UNCHANGED <<configVars, mergeVars, cacheVars, todo, watcherVars, writePathVars, serviceVars>>

TreeContents == {ListContent(es) : es \in SeqsUpTo({Entry(d, "A1") : d \in TreeDNs}, MaxRecords)}

InitTree ==
    /\ json_files = <<F1>>
    /\ fileContent \in [Paths -> TreeContents \cup {Missing}]
    /\ fileContent[F1] \in TreeContents
    /\ fileContent[F2] = Missing
    /\ merge_strategy = "last_wins"
    /\ enable_lazy_loading = FALSE
    /\ MergeIdle
    /\ CacheIdle
    /\ StoreIdle
    /\ WatcherIdle
    /\ WritePathIdle
    /\ ServiceIdle

NextTree ==
    \/ LoadAndBuild
    \/ \E c \in TreeContents : root_ref # 0 /\ WriteFile(F1, c)

SpecTree == InitTree /\ [][NextTree]_vars

\* C21: after a build from a record set the tree has a node for every input
\* path that can be parsed (an unparseable one is skipped, the build goes
\* on), every node is an input path or an ancestor of one, and every node
\* below the top level has its parent, the node of its path without the
\* leading component.
InputPaths == {e.dn : e \in {r \in Range(fileContent[F1].entries) : Parseable(r.dn)}}

IsSuffix(a, d) == Len(a) <= Len(d) /\ a = SubSeq(d, Len(d) - Len(a) + 1, Len(d))

TreeOfRecords(nodes) ==
    /\ InputPaths \subseteq nodes
    /\ \A n \in nodes : \E d \in InputPaths : IsSuffix(n, d)
    /\ \A n \in nodes : Len(n) > 1 => Tail(n) \in nodes

C21_TreeHasExactlyTheRecords ==
    [][fileContent' = fileContent => TreeOfRecords({n.dn : n \in ldif_dir'})]_vars

\* The same for the first build alone, the one on the empty directory.
FirstBuildHasExactlyTheRecords ==
    [][root_ref = 0 /\ fileContent' = fileContent
       => TreeOfRecords({n.dn : n \in ldif_dir'})]_vars

(***************************************************************************)
(* SpecPage: LazySearchIterator, PaginatedSearchResult and the store's     *)
(* search_paginated / create_search_iterator on a loaded store.  Here a    *)
(* DN is its text, character by character, because the iterator selects   *)
(* with str.endswith and orders with sorted() on the text.                 *)
(***************************************************************************)
TextC == <<"c", "=", "a">>
TextDC == <<"d", "c", "=", "a">>
TextO == <<"o", "=", "b", ",", "c", "=", "a">>
PageDNs == {TextC, TextDC, TextO}
BaseDNs == {<<>>} \cup PageDNs

CodePoint == ("," :> 44) @@ ("=" :> 61) @@ ("a" :> 97) @@ ("b" :> 98) @@ ("c" :> 99) @@ ("d" :> 100) @@ ("o" :> 111)

\* dn.endswith(base_dn)
EndsWith(dn, base_dn) ==
    Len(base_dn) <= Len(dn) /\ base_dn = SubSeq(dn, Len(dn) - Len(base_dn) + 1, Len(dn))

\* the order of Python's str: by code point, a proper prefix first
RECURSIVE StrLess(_, _)
StrLess(a, b) ==
    IF b = <<>> THEN FALSE
    ELSE IF a = <<>> THEN TRUE
    ELSE IF Head(a) # Head(b) THEN CodePoint[Head(a)] < CodePoint[Head(b)]
    ELSE StrLess(Tail(a), Tail(b))

RECURSIVE Sorted(_)
Sorted(dns) ==
    IF dns = {} THEN <<>>
    ELSE With(CHOOSE m \in dns : \A d \in dns \ {m} : StrLess(m, d),
              LAMBDA m : <<m>> \o Sorted(dns \ {m}))

\* LazySearchIterator._get_all_dns
GetAllDns(indexed, base_dn) ==
    IF base_dn # <<>>
    THEN Sorted({dn \in AllDns(indexed) : EndsWith(dn, base_dn) \/ dn = base_dn})
    ELSE Sorted(AllDns(indexed))

\* PaginatedSearchResult.__init__
PaginatedSearchResult(entries, page_size, total_count) ==
    With(IF total_count # 0 THEN total_count ELSE Len(entries),
         LAMBDA total :
           [entries |-> entries, page_size |-> page_size, total_count |-> total,
            current_page |-> 0, total_pages |-> (total + page_size - 1) \div page_size])

HasNextPage(r) == r.current_page < r.total_pages - 1
HasPreviousPage(r) == r.current_page > 0

Min(a, b) == IF a <= b THEN a ELSE b

\* all_dns[i] of Python: a negative index counts from the end
Subscript(all_dns, i) == IF i >= 0 THEN all_dns[i + 1] ELSE all_dns[Len(all_dns) + i + 1]

\* LazySearchIterator.get_page: whether dn = all_dns[i], which stands
\* outside the try, raises IndexError for an i of the range
GetPageRaises(all_dns, page_size, page_num) ==
    LET start_idx == page_num * page_size
        end_idx == Min(start_idx + page_size, Len(all_dns))
    IN \E i \in start_idx..(end_idx - 1) : i < 0 - Len(all_dns)

\* LazySearchIterator.get_page: the entries of range(start_idx, end_idx)
\* that have a reference, and the count of all the dns
GetPage(all_dns, page_size, page_num, files, indexed, strategy) ==
    LET start_idx == page_num * page_size
        end_idx == Min(start_idx + page_size, Len(all_dns))
        slice == [k \in 1..(IF end_idx > start_idx THEN end_idx - start_idx ELSE 0)
                  |-> Subscript(all_dns, start_idx + k - 1)]
        HasReference(dn) == GetLazyReferenceForDn(dn, files, indexed, strategy) # NoRef
    IN PaginatedSearchResult(SelectSeq(slice, HasReference), page_size, Len(all_dns))

\* PaginatedSearchResult.get_page(page_num)
ResultGetPage(r, page_num) ==
    IF page_num < 0 \/ page_num >= r.total_pages THEN <<>>
    ELSE SubSeq(r.entries, page_num * r.page_size + 1,
                Min(page_num * r.page_size + r.page_size, Len(r.entries)))

Returned(op, base_dn, page_num, r) ==
    [op |-> op, error |-> NoError, base_dn |-> base_dn, page_num |-> page_num,
     entries |-> r.entries, page_size |-> r.page_size, total_count |-> r.total_count,
     current_page |-> r.current_page, total_pages |-> r.total_pages]

Raised(op, base_dn, page_size, page_num) ==
    [NoResult EXCEPT !.op = op, !.error = "ValueError", !.base_dn = base_dn,
                     !.page_size = page_size, !.page_num = page_num]

RaisedIndexError(op, base_dn, page_size, page_num) ==
    [NoResult EXCEPT !.op = op, !.error = "IndexError", !.base_dn = base_dn,
                     !.page_size = page_size, !.page_num = page_num]

\* what get_page(page_num) of an iterator over all_dns gives or raises
GetPageOutcome(op, all_dns, base_dn, page_size, page_num) ==
    IF GetPageRaises(all_dns, page_size, page_num)
    THEN RaisedIndexError(op, base_dn, page_size, page_num)
    ELSE Returned(op, base_dn, page_num,
                  GetPage(all_dns, page_size, page_num, json_files,
                          lazyResult.indexed, merge_strategy))

\* FederatedJSONStorage.search_paginated(base_dn, None, page_size, page_num)
SearchPaginated(base_dn, page_size, page_num) ==
    /\ IF ~enable_lazy_loading
       THEN /\ result' = Raised("search_paginated", base_dn, page_size, page_num)
            /\ UNCHANGED iterator
       ELSE \E all_dns \in {GetAllDns(lazyResult.indexed, base_dn)} :
              /\ iterator' = [base_dn |-> base_dn, page_size |-> page_size,
                              all_dns |-> all_dns, derived |-> TRUE]
              /\ result' = GetPageOutcome("search_paginated", all_dns, base_dn, page_size, page_num)
    /\ UNCHANGED <<configVars, mergeVars, cacheVars, storeVars, watcherVars, writePathVars, load_stats, threadVars, protocolVars, lruVars, cleanupVars, lockVars>>

\* FederatedJSONStorage.create_search_iterator(base_dn, None, page_size)
CreateSearchIterator(base_dn, page_size) ==
    /\ IF ~enable_lazy_loading
       THEN /\ result' = Raised("create_search_iterator", base_dn, page_size, 0)
            /\ UNCHANGED iterator
       ELSE /\ iterator' = [NoIterator EXCEPT !.base_dn = base_dn, !.page_size = page_size]
            /\ result' = NoResult
    /\ UNCHANGED <<configVars, mergeVars, cacheVars, storeVars, watcherVars, writePathVars, load_stats, threadVars, protocolVars, lruVars, cleanupVars, lockVars>>

\* get_page(page_num) of the iterator made last: the dns are derived on
\* the first call and kept
IteratorGetPage(page_num) ==
    /\ iterator.page_size > 0
    /\ \E all_dns \in {IF iterator.derived THEN iterator.all_dns
                        ELSE GetAllDns(lazyResult.indexed, iterator.base_dn)} :
         /\ iterator' = [iterator EXCEPT !.all_dns = all_dns, !.derived = TRUE]
         /\ result' = GetPageOutcome("get_page", all_dns, iterator.base_dn,
                                      iterator.page_size, page_num)
    /\ UNCHANGED <<configVars, mergeVars, cacheVars, storeVars, watcherVars, writePathVars, load_stats, threadVars, protocolVars, lruVars, cleanupVars, lockVars>>

\* FederatedJSONStorage.get_entry_count(base_dn): in lazy mode the length of
\* the dns of a new iterator; in eager mode a walk over the _children of the
\* tree's entries, which belong to ldaptor's entry class: any count up to the
\* number of records may come out
GetEntryCount(base_dn) ==
    /\ \E count \in IF enable_lazy_loading
                     THEN {Len(GetAllDns(lazyResult.indexed, base_dn))}
                     ELSE 0..MaxRecords :
         result' = [NoResult EXCEPT !.op = "get_entry_count", !.base_dn = base_dn,
                                    !.total_count = count]
    /\ UNCHANGED iterator
    /\ UNCHANGED <<configVars, mergeVars, cacheVars, storeVars, watcherVars, writePathVars, load_stats, threadVars, protocolVars, lruVars, cleanupVars, lockVars>>

PageContents == {ListContent(es) : es \in SeqsUpTo({Entry(d, "A1") : d \in PageDNs}, MaxRecords)}

\* a store whose load in __init__ succeeded
InitPage ==
    /\ json_files \in {<<F1>>, <<F1, F2>>}
    /\ fileContent \in [Paths -> PageContents \cup {Missing}]
    /\ fileContent[F1] \in PageContents
    /\ Len(json_files) = 1 => fileContent[F2] = Missing
    /\ merge_strategy \in {"first_wins", "last_wins"}
    /\ enable_lazy_loading \in BOOLEAN
    /\ eagerResult = IF enable_lazy_loading THEN Unset
                     ELSE LoadAndMergeFiles(json_files, fileContent, merge_strategy)
    /\ lazyResult = IF enable_lazy_loading THEN LoadWithLazyLoading(json_files, fileContent)
                    ELSE LazyUnset
    /\ materialized = NotMaterialized
    /\ CacheIdle
    /\ StoreIdle
    /\ WatcherIdle
    /\ WritePathIdle
    /\ ServiceIdle

\* the page numbers asked for: one negative, and up to MaxPageNum
PageNums == (0 - 1)..MaxPageNum

NextPage ==
    \/ \E b \in BaseDNs, s \in 1..MaxPageSize, n \in PageNums : SearchPaginated(b, s, n)
    \/ \E b \in BaseDNs, s \in 1..MaxPageSize : CreateSearchIterator(b, s)
    \/ \E n \in PageNums : IteratorGetPage(n)
    \/ \E b \in BaseDNs : GetEntryCount(b)

SpecPage == InitPage /\ [][NextPage]_vars

\* C22: a page request that returned reports as total_count the number of
\* indexed paths under the prefix and as total_pages its ceiling by
\* page_size; the pages 0 .. total_pages-1 are the consecutive slices of
\* the sorted list of those paths, every path in exactly one page; and with
\* total_count <= page_size there is one page, page 0, holding all.
\* dn is the prefix or lies below it in the directory
UnderPrefix(dn, base_dn) ==
    \/ base_dn = <<>>
    \/ dn = base_dn
    \/ EndsWith(dn, <<",">> \o base_dn)

PathsUnder(base_dn) ==
    Sorted({dn \in AllDns(lazyResult.indexed) : UnderPrefix(dn, base_dn)})

PageOf(base_dn, page_size, n) ==
    GetPage(GetAllDns(lazyResult.indexed, base_dn), page_size, n, json_files,
            lazyResult.indexed, merge_strategy).entries

Slice(s, page_size, n) == SubSeq(s, n * page_size + 1, Min((n + 1) * page_size, Len(s)))

PagesAreSlicesOf(paths) ==
    /\ result.total_count = Len(paths)
    /\ result.total_pages * result.page_size >= result.total_count
    /\ (result.total_pages - 1) * result.page_size < result.total_count
    /\ result.entries = Slice(paths, result.page_size, result.page_num)
    /\ \A n \in 0..(result.total_pages - 1) :
         PageOf(result.base_dn, result.page_size, n) = Slice(paths, result.page_size, n)
    /\ \A i \in 1..Len(paths) :
         Cardinality({n \in 0..(result.total_pages - 1) :
                        \E j \in 1..Len(PageOf(result.base_dn, result.page_size, n)) :
                          PageOf(result.base_dn, result.page_size, n)[j] = paths[i]}) = 1

C22_PagesPartitionThePaths ==
    (result.op \in {"search_paginated", "get_page"} /\ result.error = NoError
        /\ result.page_num >= 0) =>
        /\ PagesAreSlicesOf(PathsUnder(result.base_dn))
        /\ result.total_count <= result.page_size =>
             /\ result.total_pages = 1
             /\ PageOf(result.base_dn, result.page_size, 0) = PathsUnder(result.base_dn)

\* The same with the paths the iterator selects, those whose text ends with
\* the prefix, and for a prefix that selects at least one path.
PagesPartitionTheSelectedPaths ==
    (result.op \in {"search_paginated", "get_page"} /\ result.error = NoError
        /\ result.page_num >= 0) =>
        /\ PagesAreSlicesOf(GetAllDns(lazyResult.indexed, result.base_dn))
        /\ (0 < result.total_count /\ result.total_count <= result.page_size) =>
             /\ result.total_pages = 1
             /\ PageOf(result.base_dn, result.page_size, 0)
                  = GetAllDns(lazyResult.indexed, result.base_dn)

\* C23: what search_paginated(prefix, page_size, page_num) returns is on
\* page page_num, has a previous page exactly when page_num > 0 and a next
\* page exactly when page_num < total_pages - 1.
C23_ResultIsOnRequestedPage ==
    (result.op = "search_paginated" /\ result.error = NoError) =>
        /\ result.current_page = result.page_num
        /\ HasPreviousPage(result) <=> result.page_num > 0
        /\ HasNextPage(result) <=> result.page_num < result.total_pages - 1

\* C24: search_paginated and create_search_iterator answer in eager mode as
\* in lazy mode: for the same sources the same paths, total count and pages,
\* the ones the index of those sources gives.
LazyAnswer(r) ==
    With(LoadWithLazyLoading(json_files, fileContent).indexed,
         LAMBDA indexed :
           IF GetPageRaises(GetAllDns(indexed, r.base_dn), r.page_size, r.page_num)
           THEN RaisedIndexError(r.op, r.base_dn, r.page_size, r.page_num)
           ELSE Returned(r.op, r.base_dn, r.page_num,
                         GetPage(GetAllDns(indexed, r.base_dn), r.page_size, r.page_num,
                                 json_files, indexed, merge_strategy)))

C24_SameAnswerInBothModes ==
    /\ result.op = "search_paginated" => result = LazyAnswer(result)
    /\ result.op = "create_search_iterator" => result.error = NoError

(***************************************************************************)
(* SpecRef: materializing references while the source files change under   *)
(* them.  Every reference keeps the file and the position its record had   *)
(* when the index was built; the file is read again on every load.         *)
(***************************************************************************)
RefFile(r) == IF r = "r2" THEN F2 ELSE F1
RefIndex(r) == IF r = "r3" THEN 2 ELSE 1

\* what a position of the array may hold now: the record with its
\* attributes, an object without the key attributes, or no object at all
RefRecords == {Entry(DnA, "stored"), Entry(DnA, "absent"), Entry(<<>>, "not_object")}

RefContents ==
    {ListContent(es) : es \in SeqsUpTo(RefRecords, MaxRecords)} \cup {Malformed, Missing}

NoEntry == Entry(<<>>, "None")

\* IndexedJSONFile.load_entry_by_index: whatever open, json.load or the
\* subscript raises is logged and None is returned
LoadEntryByIndex(c, entry_index) ==
    IF c.kind # "list" THEN NoEntry
    ELSE IF entry_index \in 1..Len(c.entries) THEN c.entries[entry_index]
    ELSE NoEntry

\* the try block of LazyEntryReference._load_from_file gets to the
\* assignment of _loaded_attributes
CanLoad(r, content) ==
    With(LoadEntryByIndex(content[RefFile(r)], RefIndex(r)),
         LAMBDA entry_data : entry_data # NoEntry /\ entry_data.attributes = "stored")

\* an attribute access of the node that owns r
Access(r) == EnsureLoaded(r, CanLoad(r, fileContent))

InitRef ==
    /\ json_files = <<F1, F2>>
    /\ fileContent = [p \in Paths |-> ListContent(<<Entry(DnA, "stored"), Entry(DnA, "stored")>>)]
    /\ merge_strategy = "last_wins"
    /\ enable_lazy_loading = TRUE
    /\ MergeIdle
    /\ CacheIdle
    /\ StoreIdle
    /\ WatcherIdle
    /\ WritePathIdle
    /\ ServiceIdle

NextRef ==
    \/ \E r \in Refs : Access(r)
    \/ \E r \in Refs : UnloadLazyAttributes(r)
    \/ \E c \in RefContents : WriteFile(F1, c)

SpecRef == InitRef /\ [][NextRef]_vars

\* C25: when an access materializes a reference and the load fails (the
\* file is missing or malformed, the position holds no record, or the record
\* has no attributes) the node gets the empty attribute set, nothing is
\* raised, and the cache and every other reference stay as they were; a
\* load that does not fail gives the stored attributes, whatever failed
\* before.
LoadFails(r) ==
    LET c == fileContent[RefFile(r)] IN
    \/ c.kind \in {"missing", "malformed"}
    \/ RefIndex(r) > Len(c.entries)
    \/ c.entries[RefIndex(r)].attributes \in {"absent", "not_object"}

C25_FailedLoadGivesEmpty ==
    [][\A r \in Refs :
         (~nodeLoaded[r] /\ nodeLoaded'[r] /\ refAttrs[r] = NoAttrs) =>
            IF LoadFails(r)
            THEN /\ refAttrs'[r] = EmptyAttrs
                 /\ cache' = cache
                 /\ \A q \in Refs \ {r} : refAttrs'[q] = refAttrs[q] /\ nodeLoaded'[q] = nodeLoaded[q]
            ELSE refAttrs'[r] = StoredAttrs(DnOf(r))]_vars

C25_Witness ==
    \E r, q \in Refs :
        /\ nodeLoaded[r] /\ refAttrs[r] = EmptyAttrs /\ LoadFails(r)
        /\ nodeLoaded[q] /\ refAttrs[q] = StoredAttrs(DnOf(q)) /\ InCache(cache, DnOf(q))
        /\ RefFile(q) # RefFile(r)

(***************************************************************************)
(* SpecFiles: add_json_file and remove_json_file on a constructed store,   *)
(* each with the _load_json it runs, and the statistics _load_json records *)
(* when it succeeds.                                                       *)
(***************************************************************************)
\* _update_load_stats(merged_data, ...)
UpdateLoadStats(eager) ==
    [total_entries |-> Len(eager.target), files_loaded |-> eager.files_loaded,
     merge_conflicts |-> eager.conflicts]

\* _update_lazy_load_stats(...)
UpdateLazyLoadStats(lazy) ==
    [total_entries |-> Cardinality(AllDns(lazy.indexed)), files_loaded |-> lazy.files_loaded,
     merge_conflicts |-> 0]

StatsOf(r, lazy) == IF lazy THEN UpdateLazyLoadStats(r.load.indexed) ELSE UpdateLoadStats(r.eager)

\* self._load_json() with self.json_files already changed to files
LoadJsonOf(files) ==
    \E r \in {LoadAll(files, fileContent, merge_strategy, enable_lazy_loading, lazyResult)} :
         /\ eagerResult' = r.eager
         /\ lazyResult' = r.load.indexed
         /\ lastReload' = r.load.error
         /\ root_ref' = PublishedAfter(r.load.error, root_ref, root_ref + 1)
         /\ IF r.load.error = NoError
            THEN /\ \E order \in r.load.orders : ldif_dir' = BuildTree(ldif_dir, order)
                 /\ load_stats' = StatsOf(r, enable_lazy_loading)
            ELSE UNCHANGED <<ldif_dir, load_stats>>
         /\ before' = [root |-> root_ref, dir |-> ldif_dir]

AddJsonFile(f) ==
    /\ root_ref \in 1..MaxLoads
    /\ f \notin Range(json_files)
    /\ json_files' = Append(json_files, f)
    /\ LoadJsonOf(Append(json_files, f))
    /\ UNCHANGED <<fileContent, merge_strategy, enable_lazy_loading, materialized, cacheVars,
                   todo, watcherVars, writePathVars, iterator, result, threadVars, protocolVars, lruVars, cleanupVars, lockVars>>

RemoveJsonFile(f) ==
    /\ root_ref \in 1..MaxLoads
    /\ f \in Range(json_files)
    /\ json_files' = SelectSeq(json_files, LAMBDA g : g # f)
    /\ LoadJsonOf(SelectSeq(json_files, LAMBDA g : g # f))
    /\ UNCHANGED <<fileContent, merge_strategy, enable_lazy_loading, materialized, cacheVars,
                   todo, watcherVars, writePathVars, iterator, result, threadVars, protocolVars, lruVars, cleanupVars, lockVars>>

\* a store as __init__ leaves it when its load succeeded
InitFiles ==
    /\ json_files \in {<<F1>>, <<F2>>, <<F1, F2>>, <<F2, F1>>}
    /\ fileContent \in [Paths -> StoreContents]
    /\ merge_strategy \in {"first_wins", "last_wins"}
    /\ enable_lazy_loading \in BOOLEAN
    /\ \E r \in {LoadAll(json_files, fileContent, merge_strategy, enable_lazy_loading, LazyUnset)} :
         /\ r.load.error = NoError
         /\ eagerResult = r.eager
         /\ lazyResult = r.load.indexed
         /\ ldif_dir \in {BuildTree({}, order) : order \in r.load.orders}
         /\ load_stats = StatsOf(r, enable_lazy_loading)
    /\ materialized = NotMaterialized
    /\ CacheIdle
    /\ root_ref = 1
    /\ todo = <<>>
    /\ before = [root |-> 0, dir |-> {}]
    /\ lastReload = NoError
    /\ WatcherIdle
    /\ WritePathIdle
    /\ iterator = NoIterator
    /\ result = NoResult
    /\ ThreadsIdle
    /\ ProtocolIdle
    /\ LruIdle
    /\ CleanupIdle
    /\ LocksIdle

NextFiles ==
    \/ \E f \in Paths : AddJsonFile(f)
    \/ \E f \in Paths : RemoveJsonFile(f)

SpecFiles == InitFiles /\ [][NextFiles]_vars

\* C26: add_json_file(f) of a file not in the set appends it at the end,
\* remove_json_file(f) takes it out, each publishes a new root, and when the
\* reload succeeds the tree and the files_loaded and total_entries of
\* get_stats are those of a fresh load of the new set.
FreshLoad(files) == LoadAll(files, fileContent, merge_strategy, enable_lazy_loading, LazyUnset)

C26_FileSetChangeIsFreshLoad ==
    [][(json_files' # json_files /\ lastReload' = NoError) =>
         /\ \/ \E f \in Paths \ Range(json_files) : json_files' = Append(json_files, f)
            \/ \E f \in Range(json_files) : json_files' = SelectSeq(json_files, LAMBDA g : g # f)
         /\ root_ref' = root_ref + 1
         /\ ldif_dir' \in {BuildTree({}, order) : order \in FreshLoad(json_files').load.orders}
         /\ load_stats'.files_loaded = StatsOf(FreshLoad(json_files'), enable_lazy_loading).files_loaded
         /\ load_stats'.total_entries = StatsOf(FreshLoad(json_files'), enable_lazy_loading).total_entries]_vars

\* The same without the tree.
FileSetChangeReloadsStats ==
    [][(json_files' # json_files /\ lastReload' = NoError) =>
         /\ \/ \E f \in Paths \ Range(json_files) : json_files' = Append(json_files, f)
            \/ \E f \in Range(json_files) : json_files' = SelectSeq(json_files, LAMBDA g : g # f)
         /\ root_ref' = root_ref + 1
         /\ load_stats' = StatsOf(FreshLoad(json_files'), enable_lazy_loading)]_vars

\* C27: after a successful load under first_wins or last_wins, eager or
\* lazy, the statistics have merge_conflicts equal to the number of records
\* whose path an earlier record, in listed order, had defined already, and
\* total_entries equal to the number of distinct paths.
RECURSIVE RecordsInOrder(_)
RecordsInOrder(files) ==
    IF files = <<>> THEN <<>>
    ELSE (IF fileContent[Head(files)].kind = "list" THEN fileContent[Head(files)].entries ELSE <<>>)
           \o RecordsInOrder(Tail(files))

AlreadyDefined(records) ==
    Cardinality({i \in 1..Len(records) : \E j \in 1..(i - 1) : records[j].dn = records[i].dn})

DistinctPaths(records) == Cardinality({records[i].dn : i \in 1..Len(records)})

StatsAsCounted(stats) ==
    /\ stats.merge_conflicts = AlreadyDefined(RecordsInOrder(json_files))
    /\ stats.total_entries = DistinctPaths(RecordsInOrder(json_files))

C27_StatsCountConflicts ==
    merge_strategy \in {"first_wins", "last_wins"} =>
        /\ eagerResult.error = NoError => StatsAsCounted(UpdateLoadStats(eagerResult))
        /\ lazyResult.error = NoError => StatsAsCounted(UpdateLazyLoadStats(lazyResult))

\* The same for the eager load alone.
EagerStatsCountConflicts ==
    (merge_strategy \in {"first_wins", "last_wins"} /\ eagerResult.error = NoError)
        => StatsAsCounted(UpdateLoadStats(eagerResult))

\* The lazy load counts the distinct paths.
LazyStatsCountPaths ==
    lazyResult.error = NoError =>
        UpdateLazyLoadStats(lazyResult).total_entries = DistinctPaths(RecordsInOrder(json_files))

(***************************************************************************)
(* SpecThreads: two threads use the cache at the same time.  A call of the *)
(* cache takes LazyEntryCache._lock for its whole body; the assignment of  *)
(* _loaded_attributes in _load_from_file and unload() of a reference are   *)
(* made without it.  put is followed statement by statement:               *)
(* get_memory_size tests is_loaded() and then reads the attributes.        *)
(***************************************************************************)
CacheCalls == {"load", "put", "get", "clear", "get_stats", "unload"}

\* the states a cache is in after up to n loads made one after the other
RECURSIVE SerialStates(_)
SerialStates(n) ==
    IF n = 0 THEN {[cache |-> <<>>, attrs |-> [r \in Refs |-> NoAttrs], removed |-> {}]}
    ELSE With(SerialStates(n - 1),
              LAMBDA prev :
                prev \cup {[LoadRef(s, r, TRUE, TRUE) EXCEPT !.removed = {}] :
                             s \in prev, r \in Refs})

Step(t, call, c, attrs, holder) ==
    /\ thread' = [thread EXCEPT ![t] = call]
    /\ cache' = c
    /\ refAttrs' = attrs
    /\ cache_lock' = holder
    /\ UNCHANGED <<configVars, mergeVars, nodeLoaded, removed, storeVars, watcherVars,
                   writePathVars, iterator, result, load_stats, start, protocolVars, lruVars, cleanupVars, lockVars>>

At(t, where) == [thread[t] EXCEPT !.pc = where]

\* LazyEntryReference.get_attributes up to the assignment in _load_from_file
Assign(t) ==
    /\ thread[t].op = "load" /\ thread[t].pc = "start"
    /\ IF refAttrs[thread[t].ref] # NoAttrs
       THEN Step(t, At(t, "done"), cache, refAttrs, cache_lock)
       ELSE Step(t, At(t, "acquire"), cache,
                 [refAttrs EXCEPT ![thread[t].ref] = StoredAttrs(DnOf(thread[t].ref))],
                 cache_lock)

\* LazyEntryReference.unload
Unload(t) ==
    /\ thread[t].op = "unload" /\ thread[t].pc = "start"
    /\ Step(t, At(t, "done"), cache, [refAttrs EXCEPT ![thread[t].ref] = NoAttrs], cache_lock)

\* with self._lock: of get, put, clear and get_stats
Acquire(t) ==
    /\ \/ thread[t].pc = "acquire"
       \/ thread[t].pc = "start" /\ thread[t].op \in {"put", "get", "clear", "get_stats"}
    /\ cache_lock = ""
    /\ Step(t, At(t, CASE thread[t].op \in {"load", "put"} -> "insert"
                       [] thread[t].op = "get_stats" -> "check"
                       [] OTHER -> thread[t].op),
            cache, refAttrs, t)

\* put: del self._cache[dn], self._cache[dn] = entry
Insert(t) ==
    /\ thread[t].pc = "insert"
    /\ Step(t, At(t, "count"), Append(Without(cache, DnOf(thread[t].ref)), thread[t].ref),
            refAttrs, cache_lock)

\* _evict_if_needed: the loop on the entry count
CountEvict(t) ==
    /\ thread[t].pc = "count"
    /\ \E st \in {EvictByCount(CacheState)} : Step(t, At(t, "check"), st.cache, st.attrs, cache_lock)

\* get_memory_size of the cached entries: is_loaded() ...
Check(t) ==
    /\ thread[t].pc = "check"
    /\ Step(t, [thread[t] EXCEPT !.pc = "sum",
                                 !.seen = {r \in CachedRefs(cache) : refAttrs[r] # NoAttrs}],
            cache, refAttrs, cache_lock)

\* ... then self._loaded_attributes.items(): an entry unloaded since the
\* test raises AttributeError, which leaves the call; _load_from_file
\* catches it and sets the empty fallback
Sum(t) ==
    /\ thread[t].pc = "sum"
    /\ IF \E r \in thread[t].seen : refAttrs[r] = NoAttrs
       THEN IF thread[t].op = "load"
            THEN Step(t, At(t, "done"), cache,
                      [refAttrs EXCEPT ![thread[t].ref] = EmptyAttrs], "")
            ELSE Step(t, At(t, "raised"), cache, refAttrs, "")
       ELSE Step(t, [thread[t] EXCEPT !.pc = "decide",
                                      !.total = SumMemory(cache, refAttrs)],
                 cache, refAttrs, cache_lock)

\* the loop on the memory estimate: evict the oldest and measure again, or
\* leave; get_stats only reports the estimate
Decide(t) ==
    /\ thread[t].pc = "decide"
    /\ IF thread[t].op # "get_stats" /\ thread[t].total > max_memory_bytes /\ cache # <<>>
       THEN \E st \in {EvictOldest(CacheState)} :
              Step(t, At(t, "check"), st.cache, st.attrs, cache_lock)
       ELSE Step(t, At(t, "done"), cache, refAttrs, "")

ApplyCall(st, op, r) ==
    CASE op = "assign" -> [st EXCEPT !.attrs[r] = StoredAttrs(DnOf(r))]
      [] op = "put" -> Put(st, DnOf(r), r)
      [] op = "unload" -> [st EXCEPT !.attrs[r] = NoAttrs]
      [] op = "get" ->
           IF InCache(st.cache, DnOf(r))
           THEN [st EXCEPT !.cache = Append(Without(st.cache, DnOf(r)),
                                            CHOOSE x \in CachedRefs(st.cache) : DnOf(x) = DnOf(r))]
           ELSE st
      [] op = "clear" ->
           [st EXCEPT !.attrs = [x \in Refs |-> IF x \in CachedRefs(st.cache) THEN NoAttrs ELSE @[x]],
                      !.cache = <<>>]
      [] OTHER -> st

\* get and clear, whole under the lock
GetOrClear(t) ==
    /\ thread[t].pc \in {"get", "clear"}
    /\ \E st \in {ApplyCall(CacheState, thread[t].pc, thread[t].ref)} :
         Step(t, At(t, "done"), st.cache, st.attrs, "")

InitThreads ==
    /\ json_files = <<F1>>
    /\ fileContent = [p \in Paths |-> Missing]
    /\ merge_strategy = "last_wins"
    /\ enable_lazy_loading = TRUE
    /\ MergeIdle
    /\ LruIdle
    /\ start \in SerialStates(MaxEntries)
    /\ cache = start.cache
    /\ refAttrs = start.attrs
    /\ nodeLoaded = [r \in Refs |-> FALSE]
    /\ removed = {}
    /\ StoreIdle
    /\ WatcherIdle
    /\ WritePathIdle
    /\ iterator = NoIterator /\ result = NoResult /\ load_stats = NoStats
    /\ ProtocolIdle
    /\ CleanupIdle
    /\ LocksIdle
    /\ cache_lock = ""
    /\ thread \in [Threads -> [op : CacheCalls, ref : Refs, pc : {"start"}, seen : {{}}, total : {0}]]
    /\ thread["iterator"].op \in {"load", "get_stats"}

NextThreads ==
    \E t \in Threads :
        \/ Assign(t)
        \/ Unload(t)
        \/ Acquire(t)
        \/ Insert(t)
        \/ CountEvict(t)
        \/ Check(t)
        \/ Sum(t)
        \/ Decide(t)
        \/ GetOrClear(t)

SpecThreads == InitThreads /\ [][NextThreads]_vars

\* C28: when the calls of the two threads have ended, none has raised, and
\* the cache (its order and its entries) and the attributes of the
\* references, which make the memory estimate, are what the same calls give
\* when made one after the other in some order; a load counts as its
\* assignment and its put.
CallsOf(call) ==
    IF call.op = "load"
    THEN <<[op |-> "assign", ref |-> call.ref], [op |-> "put", ref |-> call.ref]>>
    ELSE <<[op |-> call.op, ref |-> call.ref]>>

RECURSIVE Serial(_, _, _)
Serial(st, a, b) ==
    LET First(x, y) ==
            IF x = <<>> THEN {}
            ELSE IF Head(x).op = "assign" /\ st.attrs[Head(x).ref] # NoAttrs
            THEN Serial(st, <<>>, y)
            ELSE Serial(ApplyCall(st, Head(x).op, Head(x).ref), Tail(x), y)
    IN IF a = <<>> /\ b = <<>> THEN {st} ELSE First(a, b) \cup First(b, a)

Ended == \A t \in Threads : thread[t].pc \in {"done", "raised"}

C28_CacheCallsSerializable ==
    Ended =>
        /\ \A t \in Threads : thread[t].pc = "done"
        /\ \E s \in Serial(start, CallsOf(thread["iterator"]), CallsOf(thread["node"])) :
              s.cache = cache /\ s.attrs = refAttrs

\* The bodies of the cache's calls exclude one another.
CacheCallsExclusive ==
    /\ Cardinality({t \in Threads : thread[t].pc \notin {"start", "acquire", "done", "raised"}}) <= 1
    /\ \A t \in Threads :
         thread[t].pc \notin {"start", "acquire", "done", "raised"} <=> cache_lock = t

\* The same as C28 when no reference is loaded or unloaded during the calls.
CacheOnlyCalls == \A t \in Threads : thread[t].op \in {"put", "get", "clear", "get_stats"}

CacheOnlyCallsSerializable == CacheOnlyCalls => C28_CacheCallsSerializable

\* ---------------------------------------------------------------------------
\* The protocol layer: LDAPServerFactory and one CustomLDAPServer connection
\* over a storage (SpecServer).  A DN of a request is text split at its commas;
\* the payload of an entry stands for the password its userPassword holds.

StorageKinds == {"json", "memory"}

DnInvalid == <<"not a dn">>          \* DistinguishedName raises on it
DnUndecodable == <<"\\xff">>          \* bytes that are not UTF-8
BindDNs == {None, DnA, DnB, DnInvalid, DnUndecodable}
Passwords == {"", "A1", "A2"}

SampleData == <<Entry(DnA, "A1"), Entry(DnB, "A2")>>

\* LDAPServerFactory.__init__: self.root = storage.get_root(), once
FactoryInit ==
    /\ root_ref # 0
    /\ factory_root = 0
    /\ factory_root' = GetRoot
    /\ UNCHANGED <<storage_kind, lastRead, authenticated_dn, lastBind, replies>>
    /\ UNCHANGED <<configVars, mergeVars, cacheVars, storeVars, watcherVars, writePathVars,
                   iterator, result, load_stats, threadVars, lruVars, cleanupVars, lockVars>>

\* the registered adapter, lambda factory: factory.root: the entry every
\* search, compare and modify of ldaptor's LDAPServer starts from
AdaptedRoot == factory_root

Search ==
    /\ factory_root # 0
    /\ lastRead' = [by |-> "search", root |-> AdaptedRoot, published |-> GetRoot]
    /\ UNCHANGED <<storage_kind, factory_root, authenticated_dn, lastBind, replies>>
    /\ UNCHANGED <<configVars, mergeVars, cacheVars, storeVars, watcherVars, writePathVars,
                   iterator, result, load_stats, threadVars, lruVars, cleanupVars, lockVars>>

\* self.storage.root of _find_user_entry: MemoryStorage has the attribute,
\* the JSON storages have none (0: the AttributeError)
StorageRootAttribute(kind) == IF kind = "memory" THEN root_ref ELSE 0

\* BindHandler._find_user_entry: the walk from storage.root down the
\* components of the DN; every exception gives None
FindUserEntry(kind, dn) ==
    IF StorageRootAttribute(kind) = 0 THEN {}
    ELSE {e \in ldif_dir : e.dn = dn /\ \A k \in 1..Len(dn) : DirHas(ldif_dir, SubSeq(dn, k, Len(dn)))}

\* BindHandler._verify_user_password
VerifyUserPassword(user_entry, password) == user_entry.attributes = password

\* BindHandler.handle_simple_bind: the result code
HandleSimpleBind(kind, dn, password) ==
    IF dn = None /\ password = "" THEN 0
    ELSE IF dn # None /\ password = "" THEN 49
    ELSE IF dn = DnInvalid THEN 34
    ELSE IF FindUserEntry(kind, dn) = {} THEN 32
    ELSE IF \E user_entry \in FindUserEntry(kind, dn) : VerifyUserPassword(user_entry, password)
         THEN 0
         ELSE 49

\* handle_LDAPBindRequest, result_code == 0: dn_str if dn_str else None
OnSuccessfulBind(old, dn_str) == dn_str

\* an else branch that leaves the bound DN as it was
OnFailedBindKeeping(old, dn_str) == old

\* handle_LDAPBindRequest, the else branch
OnFailedBind(old, dn_str) == None

\* CustomLDAPServer.handle_LDAPBindRequest: the bind handler exists (the
\* factory has a storage); request.dn.decode raises on bytes that are not
\* UTF-8 and the except clause replies once with operationsError (1)
HandleLDAPBindRequest(dn, password) ==
    /\ factory_root # 0
    /\ lastBind.n < MaxBinds
    /\ \E code \in {IF dn = DnUndecodable THEN 1 ELSE HandleSimpleBind(storage_kind, dn, password)} :
         /\ authenticated_dn' =
                IF dn = DnUndecodable THEN None
                ELSE IF code = 0 THEN OnSuccessfulBind(authenticated_dn, dn)
                ELSE OnFailedBind(authenticated_dn, dn)
         /\ lastBind' = [n |-> lastBind.n + 1, dn |-> dn, password |-> password,
                         result_code |-> code]
         /\ replies' = replies + 1
         /\ lastRead' = IF dn \in {None, DnInvalid, DnUndecodable} \/ password = ""
                        THEN lastRead
                        ELSE [by |-> "bind", root |-> StorageRootAttribute(storage_kind),
                              published |-> GetRoot]
    /\ UNCHANGED <<storage_kind, factory_root>>
    /\ UNCHANGED <<configVars, mergeVars, cacheVars, storeVars, watcherVars, writePathVars,
                   iterator, result, load_stats, threadVars, lruVars, cleanupVars, lockVars>>

\* CustomLDAPServer.connectionLost
ConnectionLost ==
    /\ factory_root # 0
    /\ authenticated_dn' = None
    /\ UNCHANGED <<storage_kind, factory_root, lastRead, lastBind, replies>>
    /\ UNCHANGED <<configVars, mergeVars, cacheVars, storeVars, watcherVars, writePathVars,
                   iterator, result, load_stats, threadVars, lruVars, cleanupVars, lockVars>>

\* the storage constructed: a JSON storage over one file that loaded, or a
\* MemoryStorage with its sample data
InitServer ==
    /\ storage_kind \in StorageKinds
    /\ merge_strategy = "last_wins"
    /\ enable_lazy_loading \in BOOLEAN
    /\ IF storage_kind = "json"
       THEN /\ json_files = <<F1>>
            /\ fileContent \in [Paths -> StoreContents]
            /\ fileContent[F2] = Missing
            /\ \E r \in {LoadAll(json_files, fileContent, merge_strategy, enable_lazy_loading, LazyUnset)} :
                 /\ r.load.error = NoError
                 /\ eagerResult = r.eager
                 /\ lazyResult = r.load.indexed
                 /\ ldif_dir \in {BuildTree({}, order) : order \in r.load.orders}
       ELSE /\ json_files = <<>>
            /\ fileContent = [p \in Paths |-> Missing]
            /\ enable_lazy_loading = FALSE
            /\ eagerResult = Unset
            /\ lazyResult = LazyUnset
            /\ ldif_dir = BuildTree({}, SampleData)
    /\ materialized = NotMaterialized
    /\ CacheIdle
    /\ root_ref = 1
    /\ todo = <<>>
    /\ before = [root |-> 0, dir |-> {}]
    /\ lastReload = NoError
    /\ WatcherIdle
    /\ WritePathIdle
    /\ iterator = NoIterator /\ result = NoResult /\ load_stats = NoStats
    /\ ThreadsIdle
    /\ LruIdle
    /\ CleanupIdle
    /\ LocksIdle
    /\ factory_root = 0
    /\ lastRead = NoRead
    /\ authenticated_dn = None
    /\ lastBind = NoBind
    /\ replies = 0

NextServer ==
    \/ FactoryInit
    \/ storage_kind = "json" /\ Reload
    \/ \E p \in Range(json_files), c \in StoreContents : WriteFile(p, c)
    \/ Search
    \/ \E dn \in BindDNs, password \in Passwords : HandleLDAPBindRequest(dn, password)
    \/ ConnectionLost

SpecServer == InitServer /\ [][NextServer]_vars

\* C29: every read of the protocol layer that starts after a reload was
\* published goes to the root that get_root() returns at that moment: neither
\* the factory nor the bind handler serves a root captured before the reload.
C29_ReadsUseCurrentRoot ==
    [][lastRead' # lastRead /\ lastRead'.published > 1
          => lastRead'.root = lastRead'.published]_vars

\* What the code gives instead: a search goes to the root the factory took
\* when it was made, whatever was published since.
SearchUsesFactoryRoot ==
    [][lastRead' # lastRead /\ lastRead'.by = "search" => lastRead'.root = factory_root]_vars

C29_StaleRootServed ==
    lastRead.by = "search" /\ lastRead.root = 1 /\ lastRead.published = 2

\* C30: authenticated_dn is the bound DN only after a bind that returned
\* result code 0 with a non-empty DN; an anonymous bind, a failed bind, an
\* error while handling a bind and the loss of the connection leave it
\* cleared, so it never names a DN whose most recent bind did not succeed;
\* and every bind request gets exactly one reply.
BindSetsOrClears ==
    lastBind' # lastBind =>
        authenticated_dn' = IF lastBind'.result_code = 0 THEN lastBind'.dn ELSE None

LossClears ==
    lastBind' = lastBind /\ authenticated_dn' # authenticated_dn => authenticated_dn' = None

C30_AuthenticatedOnlyBySuccessfulBind ==
    /\ [](authenticated_dn # None =>
            lastBind.result_code = 0 /\ lastBind.dn = authenticated_dn)
    /\ [](replies = lastBind.n)
    /\ [][BindSetsOrClears /\ LossClears]_vars

\* a bind that failed, not the first on the connection, left no DN bound
C30_Witness ==
    /\ lastBind.n > 1
    /\ lastBind.result_code \in {32, 34, 49, 1}
    /\ authenticated_dn = None
    /\ replies = lastBind.n

C30_BoundWitness ==
    authenticated_dn = DnB /\ lastBind.result_code = 0 /\ lastBind.n > 1

\* ---------------------------------------------------------------------------
\* The cache seen through its calls: get with its statistics and its return
\* value, put called directly and from a load (SpecLru).

Absent == ""          \* Python None where get returns no entry

\* LazyEntryCache.get: the cache, the statistics and the return value
Get(c, stats, dn) ==
    IF InCache(c, dn)
    THEN LET r == CHOOSE x \in CachedRefs(c) : DnOf(x) = dn IN
         [cache |-> Append(Without(c, dn), r),
          stats |-> [stats EXCEPT !.hits = @ + 1],
          returned |-> r]
    ELSE [cache |-> c,
          stats |-> [stats EXCEPT !.misses = @ + 1],
          returned |-> Absent]

CacheGetCall(dn) ==
    /\ lastCacheCall.n < MaxCalls
    /\ \E got \in {Get(cache, cache_stats, dn)} :
         /\ cache' = got.cache
         /\ cache_stats' = got.stats
         /\ lastCacheCall' = [n |-> lastCacheCall.n + 1, op |-> "get", dn |-> dn,
                              ref |-> "", returned |-> got.returned]
    /\ removed' = {}
    /\ UNCHANGED <<refAttrs, nodeLoaded, cache_limits>>
    /\ UNCHANGED <<configVars, mergeVars, storeVars, watcherVars, writePathVars,
                   iterator, result, load_stats, threadVars, protocolVars, cleanupVars, lockVars>>

\* cache.put(dn, entry) called directly, or by _load_from_file after the
\* attributes of the reference were read (load)
CachePutCall(r, load) ==
    /\ lastCacheCall.n < MaxCalls
    /\ load => refAttrs[r] = NoAttrs
    /\ \E st \in {IF load THEN LoadRef(CacheState, r, TRUE, TRUE)
                          ELSE Put(CacheState, DnOf(r), r)} :
         /\ cache' = st.cache
         /\ refAttrs' = st.attrs
         /\ removed' = st.removed
    /\ lastCacheCall' = [n |-> lastCacheCall.n + 1, op |-> "put", dn |-> DnOf(r),
                         ref |-> r, returned |-> ""]
    /\ UNCHANGED <<nodeLoaded, cache_stats, cache_limits>>
    /\ UNCHANGED <<configVars, mergeVars, storeVars, watcherVars, writePathVars,
                   iterator, result, load_stats, threadVars, protocolVars, cleanupVars, lockVars>>

InitLru ==
    /\ json_files = <<F1>>
    /\ fileContent = [p \in Paths |-> Missing]
    /\ merge_strategy = "last_wins"
    /\ enable_lazy_loading = TRUE
    /\ MergeIdle
    /\ CacheIdle
    /\ StoreIdle
    /\ WatcherIdle
    /\ WritePathIdle
    /\ ServiceIdle

NextLru ==
    \/ \E dn \in CacheDNs : CacheGetCall(dn)
    \/ \E r \in Refs, load \in BOOLEAN : CachePutCall(r, load)
    \/ \E r \in Refs : RefUnload(r)

SpecLru == InitLru /\ [][NextLru]_vars

IsSuffixOf(c, whole) ==
    \E k \in 0..Len(whole) : c = SubSeq(whole, k + 1, Len(whole))

GetAsClaimed ==
    lastCacheCall'.op = "get" =>
        LET dn == lastCacheCall'.dn IN
        IF InCache(cache, dn)
        THEN /\ lastCacheCall'.returned \in CachedRefs(cache)
             /\ DnOf(lastCacheCall'.returned) = dn
             /\ cache_stats' = [cache_stats EXCEPT !.hits = @ + 1]
             /\ cache' = Append(Without(cache, dn), lastCacheCall'.returned)
        ELSE /\ lastCacheCall'.returned = Absent
             /\ cache_stats' = [cache_stats EXCEPT !.misses = @ + 1]
             /\ cache' = cache

PutAsClaimed ==
    lastCacheCall'.op = "put" =>
        /\ IsSuffixOf(cache', Append(Without(cache, lastCacheCall'.dn), lastCacheCall'.ref))
        /\ removed' = CachedRefs(Append(Without(cache, lastCacheCall'.dn), lastCacheCall'.ref))
                          \ CachedRefs(cache')
        /\ cache_stats' = cache_stats

\* C31: get(path) returns the cached entry and counts one hit when the path
\* is cached, otherwise returns absent and counts one miss; a hit and a put
\* make the path the most recently used, and a put evicts in
\* least-recently-used order: what stays is the most recent end of the
\* order, so the entry just inserted goes only after every older entry.
C31_GetAndPutKeepLruOrder ==
    [][lastCacheCall'.n # lastCacheCall.n => GetAsClaimed /\ PutAsClaimed]_vars

\* a put evicted the least recently used entry after a hit had moved
\* another entry to the most recent end
C31_Witness ==
    /\ lastCacheCall.op = "put"
    /\ removed = {"r2"}
    /\ cache = <<"r1", "r3">>
    /\ cache_stats.hits = 1

\* C32 (under SpecTree): after a build, a node whose path is in the input
\* carries the attributes of that record, whatever the order of the records,
\* and a node with synthesized attributes stands only for an ancestor path
\* that no record of the input has.
RecordAttributes(dn) ==
    LET es == fileContent[F1].entries
        last == CHOOSE i \in 1..Len(es) : es[i].dn = dn /\ \A j \in (i + 1)..Len(es) : es[j].dn # dn
    IN es[last].attributes

NodesCarryRecords(dir) ==
    \A n \in dir :
        /\ n.dn \in InputPaths => n.attributes = RecordAttributes(n.dn)
        /\ n.attributes = SynthAttrs =>
               /\ n.dn \notin InputPaths
               /\ \E d \in InputPaths : IsSuffix(n.dn, d)

C32_NodesCarryRecords ==
    [][fileContent' = fileContent => NodesCarryRecords(ldif_dir')]_vars

\* The same for the first build alone, the one on the empty directory.
FirstBuildNodesCarryRecords ==
    [][root_ref = 0 /\ fileContent' = fileContent => NodesCarryRecords(ldif_dir')]_vars

\* C33 (under SpecPage): for a non-empty prefix, the paths a paginated
\* search enumerates and get_entry_count counts are exactly the indexed
\* paths that are the prefix or lie below it, component by component; a path
\* whose text only ends with the text of the prefix is not among them.
C33_EnumeratesPathsUnderPrefix ==
    /\ (iterator.derived /\ iterator.base_dn # <<>>)
         => iterator.all_dns = PathsUnder(iterator.base_dn)
    /\ (enable_lazy_loading /\ result.op = "get_entry_count" /\ result.base_dn # <<>>)
         => result.total_count = Len(PathsUnder(result.base_dn))

\* What the code enumerates: the indexed paths whose text ends with the text
\* of the prefix.
EnumeratesPathsEndingWithPrefix ==
    /\ iterator.derived
         => iterator.all_dns = Sorted({dn \in AllDns(lazyResult.indexed) :
                                         EndsWith(dn, iterator.base_dn)})
    /\ (enable_lazy_loading /\ result.op = "get_entry_count")
         => result.total_count = Cardinality({dn \in AllDns(lazyResult.indexed) :
                                                EndsWith(dn, result.base_dn)})

C33_TextSuffixCounted ==
    /\ enable_lazy_loading
    /\ result.op = "get_entry_count"
    /\ result.base_dn = TextC
    /\ result.total_count > Len(PathsUnder(TextC))

\* ---------------------------------------------------------------------------
\* SpecCleanup: a store with its watcher running, events for its source file,
\* the debounce timers, and cleanup() called at any time between reloads.
\* The directory self._temp_dir holds the nodes of ldif_dir; after rmtree it
\* does not exist and holds none.

\* FederatedJSONStorage.cleanup: stop and join the observer when there is
\* one, remove the temporary directory when it exists.  The timers of the
\* file handler are not touched.
Cleanup ==
    /\ cleanups < MaxCleanups
    /\ ~WatcherBusy
    /\ observer' = "none"
    /\ ldif_dir' = {}
    /\ cleanups' = cleanups + 1
    /\ UNCHANGED <<root_ref, todo, before, lastReload>>
    /\ UNCHANGED <<configVars, mergeVars, cacheVars, watcherVars, writePathVars,
                   iterator, result, load_stats, threadVars, protocolVars, lruVars, lockVars>>

\* the observer thread delivers an event to the file handler
Dispatch(ev) == observer = "running" /\ OnModified(ev)

InitCleanup ==
    /\ json_files = <<F1>>
    /\ fileContent \in [Paths -> StoreContents]
    /\ merge_strategy = "last_wins"
    /\ enable_lazy_loading \in BOOLEAN
    /\ Constructed
    /\ WritePathIdle
    /\ iterator = NoIterator /\ result = NoResult /\ load_stats = NoStats
    /\ ThreadsIdle
    /\ ProtocolIdle
    /\ LruIdle
    /\ observer = "running"
    /\ cleanups = 0
    /\ LocksIdle

NextCleanup ==
    \/ Dispatch(FileEvent(F1))
    \/ \E i \in 1..MaxEvents : TimerExpire(i)
    \/ \E i \in 1..MaxEvents : ProcessPendingReloads(i)
    \/ BuildStep
    \/ \E i \in 1..MaxEvents : Publish(i)
    \/ \E c \in StoreContents : WriteFile(F1, c)
    \/ Cleanup

SpecCleanup == InitCleanup /\ [][NextCleanup]_vars

\* C34: after cleanup() has returned the watcher is stopped, no reload runs
\* any more, not even from a debounce timer started before the cleanup, and
\* the temporary directory is removed and stays so; a second cleanup() has
\* no further effect.
C34_NoReloadAfterCleanup ==
    /\ [](cleanups > 0 => observer = "none" /\ ldif_dir = {})
    /\ [][cleanups > 0 => ~ReloadBegins]_vars
    /\ [][cleanups > 0 /\ cleanups' # cleanups
            => UNCHANGED <<configVars, mergeVars, cacheVars, storeVars, watcherVars, observer>>]_vars

\* What holds: after cleanup() no event reaches the file handler and no
\* timer is started, cleanup() leaves the watcher stopped and the directory
\* removed when it returns, and a second cleanup() that finds the directory
\* removed changes nothing.
CleanupStopsEvents ==
    /\ [](cleanups > 0 => observer = "none")
    /\ [][cleanups > 0 => nEvents' = nEvents /\ timer' = timer]_vars
    /\ [][cleanups' # cleanups => ldif_dir' = {}]_vars
    /\ [][cleanups > 0 /\ cleanups' # cleanups /\ ldif_dir = {}
            => UNCHANGED <<configVars, mergeVars, cacheVars, storeVars, watcherVars, observer>>]_vars

\* a reload begun by a timer that was waiting when cleanup() was called
C34_ReloadAfterCleanup ==
    cleanups > 0 /\ lastReload = "running"

\* C35 (under Spec): a reload that fails in lazy mode leaves what the API
\* exposes as it was before the reload: the lazy index that
\* search_paginated, create_search_iterator and get_entry_count read, the
\* loaded state of the references, the cache and the load statistics.
ReloadFails == ReloadBegins /\ lastReload' = "failed"

C35_FailedLazyReloadKeepsState ==
    [][enable_lazy_loading /\ ReloadFails
         => /\ lazyResult'.indexed = lazyResult.indexed
            /\ refAttrs' = refAttrs
            /\ cache' = cache
            /\ load_stats' = load_stats]_vars

\* What a failed lazy reload keeps: the published root and its tree.
FailedLazyReloadKeepsRoot ==
    [][enable_lazy_loading /\ ReloadFails
         => root_ref' = root_ref /\ ldif_dir' = ldif_dir]_vars

\* a lazy reload failed and the index it leaves is not the one of before
C35_IndexLost ==
    /\ enable_lazy_loading
    /\ lastReload = "failed"
    /\ AllDns(lazyResult.indexed) = {}
    /\ ldif_dir # {}

\* C36 (under SpecFiles): when the reload run by add_json_file or
\* remove_json_file fails, the Source File Set is the same as before the
\* call, so a later reload is not made to fail by the rejected change; and
\* add_json_file of a file already in the set changes nothing.
C36_FailedChangeKeepsFileSet ==
    [][lastReload' # NoError => json_files' = json_files]_vars

\* What a failed call keeps: the published root, its tree and the statistics.
FailedChangeKeepsRoot ==
    [][lastReload' # NoError
         => root_ref' = root_ref /\ ldif_dir' = ldif_dir /\ load_stats' = load_stats]_vars

\* the set is left empty by a remove_json_file whose reload failed: every
\* later reload fails
C36_FileSetLeftEmpty ==
    /\ json_files = <<>>
    /\ lastReload # NoError
    /\ root_ref = 1
    /\ LoadAll(json_files, fileContent, merge_strategy, enable_lazy_loading, lazyResult).load.error # NoError

\* C37 (under SpecPage): a page number that is negative or not less than
\* total_pages, asked through PaginatedSearchResult.get_page,
\* LazySearchIterator.get_page or search_paginated, yields an empty page and
\* no entry is made for it.
TotalPages(base_dn, page_size) ==
    (Len(GetAllDns(lazyResult.indexed, base_dn)) + page_size - 1) \div page_size

OutOfRange(r) == r.page_num < 0 \/ r.page_num >= TotalPages(r.base_dn, r.page_size)

C37_OutOfRangePageIsEmpty ==
    (enable_lazy_loading /\ result.op \in {"search_paginated", "get_page"}) =>
        /\ OutOfRange(result) => result.error = NoError /\ result.entries = <<>>
        /\ result.error = NoError =>
             \A n \in PageNums \cup {MaxPageNum + 1} :
                (n < 0 \/ n >= result.total_pages) => ResultGetPage(result, n) = <<>>

\* The same for the page numbers that are not negative.
PageBeyondTheLastIsEmpty ==
    (enable_lazy_loading /\ result.op \in {"search_paginated", "get_page"}) =>
        /\ result.page_num >= TotalPages(result.base_dn, result.page_size)
             => result.error = NoError /\ result.entries = <<>>
        /\ result.error = NoError =>
             \A n \in PageNums \cup {MaxPageNum + 1} :
                (n < 0 \/ n >= result.total_pages) => ResultGetPage(result, n) = <<>>

\* page -1 gave the last entry of the list
C37_NegativePageHasEntries ==
    /\ result.op = "search_paginated"
    /\ result.page_num < 0
    /\ result.error = NoError
    /\ result.entries # <<>>

\* page -1 raised
C37_NegativePageRaises ==
    /\ result.op = "search_paginated"
    /\ result.page_num < 0
    /\ result.error = "IndexError"

\* ---------------------------------------------------------------------------
\* SpecStale: a lazy store over one file; the file is rewritten at any time,
\* references are materialized through the index as it stands, and a reload
\* builds the index anew.

InitStale ==
    /\ json_files = <<F1>>
    /\ fileContent \in [Paths -> MergeContents]
    /\ fileContent[F1] # Missing
    /\ fileContent[F2] = Missing
    /\ merge_strategy = "last_wins"
    /\ enable_lazy_loading = TRUE
    /\ \E r \in {LoadAll(json_files, fileContent, merge_strategy, enable_lazy_loading, LazyUnset)} :
         /\ r.load.error = NoError
         /\ eagerResult = r.eager
         /\ lazyResult = r.load.indexed
         /\ ldif_dir \in {BuildTree({}, order) : order \in r.load.orders}
    /\ materialized = NotMaterialized
    /\ CacheIdle
    /\ root_ref = 1
    /\ todo = <<>>
    /\ before = [root |-> 0, dir |-> {}]
    /\ lastReload = NoError
    /\ WatcherIdle
    /\ WritePathIdle
    /\ ServiceIdle

NextStale ==
    \/ \E c \in MergeContents \cup {Malformed} : WriteFile(F1, c)
    \/ \E dn \in MergeDNs : Materialize(dn)
    \/ Reload

SpecStale == InitStale /\ [][NextStale]_vars

\* the attributes the records with path dn have in the file as it is now
AttributesNow(dn) ==
    {fileContent[F1].entries[i].attributes :
        i \in {j \in 1..Len(fileContent[F1].entries) : fileContent[F1].entries[j].dn = dn}}

\* C38: materializing a lazy reference for a path P yields the attributes of
\* a record whose path is P, or the empty fallback, never those of a record
\* with another path, also when the file was rewritten after the index was
\* built.
C38_MaterializedIsOwnRecord ==
    [][materialized' # materialized =>
         \/ materialized'.attributes = EmptyAttrs
         \/ materialized'.attributes \in AttributesNow(materialized'.dn)]_vars

\* The same while the index is the one of the file as it is.
IndexIsCurrent == lazyResult = LoadWithLazyLoading(json_files, fileContent)

MaterializedIsOwnRecordWhileCurrent ==
    [][materialized' # materialized /\ IndexIsCurrent =>
         materialized'.attributes \in AttributesNow(materialized'.dn)]_vars

\* the reference of dc=a gave the attributes of the record of ou=b,dc=a,
\* which took its place in the file
C38_OtherRecordRead ==
    /\ materialized.dn = DnA
    /\ materialized.attributes = "A2"
    /\ fileContent[F1] = ListContent(<<Entry(DnB, "A2")>>)

\* ---------------------------------------------------------------------------
\* SpecLimits: a cache made with any limits, max_entries from 0 and
\* max_memory_bytes from 0; the nodes read their attributes through it, the
\* files are as they were indexed, so every load finds its record.

CacheLimits ==
    [max_entries : 0..MaxEntries, max_memory_bytes : 0..MaxMemoryBytes]

InitLimits ==
    /\ json_files = <<F1, F2>>
    /\ fileContent = [p \in Paths |-> ListContent(<<Entry(DnA, "stored"), Entry(DnA, "stored")>>)]
    /\ merge_strategy = "last_wins"
    /\ enable_lazy_loading = TRUE
    /\ MergeIdle
    /\ CacheIdle
    /\ StoreIdle
    /\ WatcherIdle
    /\ WritePathIdle
    /\ iterator = NoIterator /\ result = NoResult /\ load_stats = NoStats
    /\ ThreadsIdle
    /\ ProtocolIdle
    /\ CleanupIdle
    /\ LocksIdle
    /\ cache_stats = NoStatsYet
    /\ lastCacheCall = NoCacheCall
    /\ cache_limits \in CacheLimits

NextLimits ==
    \/ \E r \in Refs : Access(r)
    \/ \E r \in Refs : UnloadLazyAttributes(r)

SpecLimits == InitLimits /\ [][NextLimits]_vars

\* C39: for every setting of max_entries and max_memory_bytes, a read of a
\* record's attributes through a lazy reference with the cache gives the
\* attributes stored in the file: the put of the freshly loaded entry does
\* not evict and unload that entry before the caller gets them.
Reads(r) == ~nodeLoaded[r] /\ nodeLoaded'[r] /\ refAttrs[r] = NoAttrs

C39_ReadGivesStoredAttributes ==
    [][\A r \in Refs : Reads(r) => refAttrs'[r] = StoredAttrs(DnOf(r))]_vars

\* The same for limits that one entry alone does not exceed.
EntryFits(r) ==
    max_entries >= 1 /\ GetMemorySize(StoredAttrs(DnOf(r))) <= max_memory_bytes

ReadGivesStoredAttributesWhenItFits ==
    [][\A r \in Refs : Reads(r) /\ EntryFits(r) => refAttrs'[r] = StoredAttrs(DnOf(r))]_vars

\* the node of r2 has read its attributes and the reference holds none: the
\* put evicted and unloaded the entry it had just inserted
C39_OwnEntryEvicted ==
    /\ nodeLoaded["r2"]
    /\ refAttrs["r2"] = NoAttrs
    /\ "r2" \in removed
    /\ max_entries >= 1

(***************************************************************************)
(* The locks of the store and the threads that take them.  A thread's      *)
(* program is what it still has to execute of the call it is in: lock      *)
(* acquisitions and releases (the with statements of the code) and the     *)
(* steps between them that decide what is executed next.  The watchdog     *)
(* thread delivers the events one after the other; every accepted event    *)
(* starts a threading.Timer thread.                                        *)
(***************************************************************************)
WatcherLock == "watcher"     \* FederatedFileWatcher._lock, a threading.Lock
StoreLock == "store"         \* FederatedJSONStorage._lock, a threading.RLock
CacheLock == "cache"         \* LazyEntryCache._lock, a threading.RLock
IndexLock(path) == path      \* IndexedJSONFile._lock of the index of path, a threading.RLock

Locks == {WatcherLock, StoreLock, CacheLock} \cup {IndexLock(p) : p \in Paths}

\* threading.RLock may be acquired again by the thread that holds it
Reentrant(l) == l # WatcherLock

Instruction(op, arg) == [op |-> op, arg |-> arg]

\* with lock: body
WithLock(l, body) == <<Instruction("acquire", l)>> \o body \o <<Instruction("release", l)>>

\* cache.get, cache.put, cache.clear, cache.get_stats
CacheCall == WithLock(CacheLock, <<>>)

\* indexed_file.build_index() of a file that exists
BuildIndexCode(path) == WithLock(IndexLock(path), <<>>)

\* the loop of _load_with_lazy_loading: a file that does not exist is skipped
\* before its index is made; an index that fails to build has released its lock
RECURSIVE IndexAll(_, _)
IndexAll(files, content) ==
    IF files = <<>> THEN <<>>
    ELSE (IF content[Head(files)].kind = "missing" THEN <<>> ELSE BuildIndexCode(Head(files)))
         \o IndexAll(Tail(files), content)

\* a load that would take the watcher's lock while it holds the store's
LoadBodyTakingWatcherLock(files, content, lazy) ==
    WithLock(WatcherLock, IF lazy THEN CacheCall \o IndexAll(files, content) ELSE <<>>)

\* what _load_json executes inside its lock: the eager load takes no lock,
\* the lazy load clears the cache and builds the index of every file
LoadBody(files, content, lazy) ==
    IF lazy THEN CacheCall \o IndexAll(files, content) ELSE <<>>

\* _load_json
LoadJsonCode == WithLock(StoreLock, <<Instruction("load", "")>>)

\* on_modified of an accepted event
OnModifiedCode(path) == WithLock(WatcherLock, <<Instruction("arm", path)>>)

\* _process_pending_reloads
ProcessPendingReloadsCode == WithLock(WatcherLock, <<Instruction("check_pending", "")>>)

\* search_paginated whose filter reads the attributes of n nodes: every read
\* is a call of the cache (get_attributes puts the loaded reference)
SearchCode(n) == [i \in 1..(2 * n) |-> CacheCall[2 - (i % 2)]]

HeldBy(t) == Range(held[t])

LockIsFree(t, l) ==
    IF Reentrant(l) THEN \A u \in LockThreads \ {t} : l \notin HeldBy(u)
    ELSE \A u \in LockThreads : l \notin HeldBy(u)

LocksFrame ==
    /\ UNCHANGED <<fileContent, merge_strategy, enable_lazy_loading>>
    /\ UNCHANGED <<mergeVars, cacheVars, storeVars, writePathVars>>
    /\ UNCHANGED <<lastEvent, burstReloads, burstBroken, unserved>>
    /\ UNCHANGED <<iterator, result, load_stats, threadVars, protocolVars, lruVars, cleanupVars>>

\* the watchdog thread calls on_modified; an event that is not accepted returns
OnModifiedCalled(path) ==
    /\ lock_calls < MaxLockCalls
    /\ nEvents < MaxEvents
    /\ program[ObserverThread] = <<>>
    /\ lock_calls' = lock_calls + 1
    /\ nEvents' = nEvents + 1
    /\ program' = [program EXCEPT ![ObserverThread] =
                      IF path \in Range(json_files) THEN OnModifiedCode(path) ELSE <<>>]
    /\ UNCHANGED <<json_files, pending, timers, timer, held>>
    /\ LocksFrame

\* the interval of a timer passes: its thread calls _process_pending_reloads
TimerRuns(i) ==
    /\ timers[i] = "waiting"
    /\ timers' = [timers EXCEPT ![i] = "fired"]
    /\ program' = [program EXCEPT ![TimerThread(i)] = ProcessPendingReloadsCode]
    /\ UNCHANGED <<json_files, pending, timer, nEvents, held, lock_calls>>
    /\ LocksFrame

\* add_json_file up to its call of _load_json
AddJsonFileCalled(path) ==
    /\ lock_calls < MaxLockCalls
    /\ program[ApiThread] = <<>>
    /\ lock_calls' = lock_calls + 1
    /\ IF path \notin Range(json_files)
       THEN /\ json_files' = Append(json_files, path)
            /\ program' = [program EXCEPT ![ApiThread] = LoadJsonCode]
       ELSE UNCHANGED <<json_files, program>>
    /\ UNCHANGED <<pending, timers, timer, nEvents, held>>
    /\ LocksFrame

\* remove_json_file up to its call of _load_json
RemoveJsonFileCalled(path) ==
    /\ lock_calls < MaxLockCalls
    /\ program[ApiThread] = <<>>
    /\ lock_calls' = lock_calls + 1
    /\ IF path \in Range(json_files)
       THEN /\ json_files' = SelectSeq(json_files, LAMBDA f : f # path)
            /\ program' = [program EXCEPT ![ApiThread] = LoadJsonCode]
       ELSE UNCHANGED <<json_files, program>>
    /\ UNCHANGED <<pending, timers, timer, nEvents, held>>
    /\ LocksFrame

\* search_paginated: it raises at once when lazy loading is off
SearchPaginatedCalled(n) ==
    /\ lock_calls < MaxLockCalls
    /\ program[SearchThread] = <<>>
    /\ lock_calls' = lock_calls + 1
    /\ program' = [program EXCEPT ![SearchThread] =
                      IF enable_lazy_loading THEN SearchCode(n) ELSE <<>>]
    /\ UNCHANGED <<json_files, pending, timers, timer, nEvents, held>>
    /\ LocksFrame

IsLockStep(ins) == ins.op \in {"acquire", "release"}

\* one statement between two lock steps, on the thread's view st of the
\* watcher's fields and of its own program
Statement(st) ==
    LET ins == Head(st.program)
        rest == Tail(st.program)
    IN CASE ins.op = "arm" ->
              [st EXCEPT !.program = rest,
                         !.pending = @ \cup {ins.arg},
                         !.timers = StartTimer(CancelTimer(@, st.timer), nEvents),
                         !.timer = nEvents]
         [] ins.op = "check_pending" ->
              [st EXCEPT !.program = IF st.pending # {}
                                     THEN LoadJsonCode \o <<Instruction("clear_pending", "")>> \o rest
                                     ELSE rest]
         [] ins.op = "load" ->
              [st EXCEPT !.program = LoadBody(json_files, fileContent, enable_lazy_loading) \o rest]
         [] ins.op = "clear_pending" ->
              [st EXCEPT !.program = rest, !.pending = {}]

\* the statements up to the next lock step
RECURSIVE Statements(_)
Statements(st) ==
    IF st.program = <<>> \/ IsLockStep(Head(st.program)) THEN st ELSE Statements(Statement(st))

\* a thread executes the next lock step of its program, an acquisition as soon
\* as the lock can be acquired, and the statements that follow it up to the
\* next lock step: these read and write only the thread's own state and what
\* the lock it holds protects
Execute(t) ==
    /\ program[t] # <<>>
    /\ \E ins \in {Head(program[t])} :
          /\ ins.op = "acquire" => LockIsFree(t, ins.arg)
          /\ held' = [held EXCEPT ![t] = IF ins.op = "acquire" THEN Append(@, ins.arg)
                                          ELSE SubSeq(@, 1, Len(@) - 1)]
          /\ \E st \in {Statements([program |-> Tail(program[t]), pending |-> pending,
                                     timers |-> timers, timer |-> timer])} :
                /\ program' = [program EXCEPT ![t] = st.program]
                /\ pending' = st.pending
                /\ timers' = st.timers
                /\ timer' = st.timer
    /\ UNCHANGED <<json_files, nEvents, lock_calls>>
    /\ LocksFrame

SomeThreadRuns == \E t \in LockThreads : Execute(t)

MaxReads == 2

InitLocks ==
    /\ json_files = <<F1, F2>>
    /\ fileContent = [p \in Paths |-> ListContent(<<Entry(DnA, "A1")>>)]
    /\ merge_strategy = "last_wins"
    /\ enable_lazy_loading \in BOOLEAN
    /\ Constructed
    /\ WritePathIdle
    /\ ServiceIdle

NextLocks ==
    \/ \E p \in {F1, LockFile} : OnModifiedCalled(p)
    \/ \E i \in 1..MaxEvents : TimerRuns(i)
    \/ AddJsonFileCalled(F2)
    \/ RemoveJsonFileCalled(F2)
    \/ \E n \in 1..MaxReads : SearchPaginatedCalled(n)
    \/ SomeThreadRuns

\* a thread that can run is run
SpecLocks == InitLocks /\ [][NextLocks]_vars /\ WF_vars(SomeThreadRuns)

\* the one order: the watcher's lock, then the store's, then an index's or the cache's
Rank(l) == CASE l = WatcherLock -> 1 [] l = StoreLock -> 2 [] OTHER -> 3

LockOrder ==
    \A t \in LockThreads : \A i, j \in 1..Len(held[t]) :
        i < j => Rank(held[t][i]) < Rank(held[t][j])

CanExecute(t) ==
    /\ program[t] # <<>>
    /\ Head(program[t]).op = "acquire" => LockIsFree(t, Head(program[t]).arg)

NoDeadlock == (\E t \in LockThreads : program[t] # <<>>) => \E t \in LockThreads : CanExecute(t)

ReleasedAtReturn == \A t \in LockThreads : program[t] = <<>> => held[t] = <<>>

AllReturned == \A t \in LockThreads : program[t] = <<>>

\* the calls of a behaviour are finitely many: every call that began returns
\* exactly when from some point on no thread is inside a call
Terminates == <>[]AllReturned

\* C40: no interleaving of watcher events, timer callbacks, reloads, changes
\* of the Source File Set, paginated searches and cache calls deadlocks:
\* every thread holds its locks in the one order watcher, store, then index
\* or cache, some thread can always run while a call is in progress, a call
\* that returned holds no lock, and in the end every call has returned.
C40_NoDeadlock == [](LockOrder /\ NoDeadlock /\ ReleasedAtReturn) /\ Terminates

\* a timer thread builds an index inside the store's lock inside the
\* watcher's, the watchdog thread waits for the watcher's lock, add_json_file
\* or remove_json_file waits for the store's, and the search holds the cache's
C40_Contention ==
    \E i \in 1..MaxEvents :
        /\ held[TimerThread(i)] = <<WatcherLock, StoreLock, IndexLock(F1)>>
        /\ program[ObserverThread] # <<>>
        /\ Head(program[ObserverThread]) = Instruction("acquire", WatcherLock)
        /\ program[ApiThread] # <<>>
        /\ Head(program[ApiThread]) = Instruction("acquire", StoreLock)
        /\ held[SearchThread] = <<CacheLock>>
====
